---- MODULE Spec2Model ----
(***************************************************************************)
(* EventQibla: booking and ticket lifecycle.                               *)
(*                                                                         *)
(* The database is modelled as its tables of rows.  Every row carries its  *)
(* committed value v, the value p seen by the connection that holds a      *)
(* pending write or a row lock on it, and lock, that connection (0: none). *)
(* A statement sent with db.query runs on whichever pool connection is     *)
(* free; a statement sent on a client obtained with db.connect() runs on   *)
(* that client.  BEGIN, COMMIT and ROLLBACK act on the connection they     *)
(* run on.  Every awaited statement of a handler is one step.              *)
(***************************************************************************)
EXTENDS Integers, Sequences, FiniteSets, TLC

VARIABLES now, events, tickets, event_waitlist, notifications, users, conns, req

vars == <<now, events, tickets, event_waitlist, notifications, users, conns, req>>

dbvars == <<events, tickets, event_waitlist, notifications, users>>

----------------------------------------------------------------------------
(* Bounds *)

NumEvents == 2

NumUsers == 3

MaxQuantity == 2

MaxCapacity == 2

PoolSize == 2

MaxRequests == 2

EventStart == 1000000

EventLength == 3600000

----------------------------------------------------------------------------
(* Program constants and the data of the initial database *)

FIVE_MINUTES == 5 * 60 * 1000

\* the account created by initialiseAdmin; ordinary users are 1..NumUsers
AdminId == 0

EventIds == DOMAIN events

UserIds == DOMAIN users

Conns == DOMAIN conns

\* an id that names no row of events
NoEvent == 0

\* a field the response does not carry
NoValue == -1

\* event e is organised by user e (wrapping round); events start at
\* EventStart and last EventLength; odd events are priced, even events free
OrganiserOf(e) == ((e - 1) % NumUsers) + 1

EventEnd == EventStart + EventLength

PriceOf(e) == IF e % 2 = 1 THEN 10 ELSE 0

\* the instants the clock can show: around the cancel lockout, the start,
\* and around the end of the events
Times ==
  {EventStart - FIVE_MINUTES - 1, EventStart - FIVE_MINUTES,
   EventStart - FIVE_MINUTES + 1, EventStart, EventEnd, EventEnd + 1}

TimeZero == EventStart - FIVE_MINUTES - 1

----------------------------------------------------------------------------
(* Rows, connections and transactions *)

\* the value of row r as a statement running on connection c reads it
Vis(r, c) == IF r.lock = c THEN r.p ELSE r.v

\* row r can be written or locked by connection c
Free(r, c) == r.lock \in {0, c}

\* connection c writes x to row r: pending while c is inside a transaction,
\* committed at once otherwise
WriteRow(r, c, x) ==
  IF conns[c].inTxn THEN [r EXCEPT !.p = x, !.lock = c]
  ELSE [r EXCEPT !.v = x, !.p = x, !.lock = 0]

\* SELECT ... FOR UPDATE of row r on connection c
LockRow(r, c) ==
  IF conns[c].inTxn /\ r.lock = 0 THEN [r EXCEPT !.p = r.v, !.lock = c] ELSE r

CommitRow(r, c) == IF r.lock = c THEN [r EXCEPT !.v = r.p, !.lock = 0] ELSE r

RollbackRow(r, c) == IF r.lock = c THEN [r EXCEPT !.p = r.v, !.lock = 0] ELSE r

\* the connections a db.query or a db.connect() can be given: the ones not
\* checked out.  Connections outside a transaction hold nothing and are
\* alike, so the lowest of them stands for all of them.
IdleConns ==
  {c \in Conns :
     /\ ~conns[c].out
     /\ conns[c].inTxn
          \/ \A o \in Conns : (o < c /\ ~conns[o].out) => conns[o].inTxn}

\* BEGIN on connection c (a warning and no effect inside a transaction)
Begin(cs, c) == [cs EXCEPT ![c].inTxn = TRUE]

\* the tables after COMMIT on connection c
CommitTickets(ts, c) == [i \in DOMAIN ts |-> CommitRow(ts[i], c)]

CommitEvents(es, c) == [e \in DOMAIN es |-> CommitRow(es[e], c)]

CommitWaitlist(wl, c) == [k \in DOMAIN wl |-> CommitRow(wl[k], c)]

CommitUsers(us, c) == [u \in DOMAIN us |-> CommitRow(us[u], c)]

CommitNotifications(ns, c) ==
  {IF n.lock = c THEN [n EXCEPT !.lock = 0] ELSE n : n \in ns}

\* the tables after ROLLBACK on connection c
RollbackTickets(ts, c) == [i \in DOMAIN ts |-> RollbackRow(ts[i], c)]

RollbackEvents(es, c) == [e \in DOMAIN es |-> RollbackRow(es[e], c)]

RollbackWaitlist(wl, c) == [k \in DOMAIN wl |-> RollbackRow(wl[k], c)]

RollbackUsers(us, c) == [u \in DOMAIN us |-> RollbackRow(us[u], c)]

RollbackNotifications(ns, c) == {n \in ns : n.lock # c}

EndTxn(cs, c) == [cs EXCEPT ![c].inTxn = FALSE]

\* db.connect() hands out connection c and the handler sends BEGIN on it
Checkout(cs, c) == [cs EXCEPT ![c].out = TRUE, ![c].inTxn = TRUE]

\* after COMMIT or ROLLBACK on its client the handler releases it
Release(cs, c) == [cs EXCEPT ![c].out = FALSE, ![c].inTxn = FALSE]

\* COMMIT on connection c
Commit(c) ==
  /\ tickets' = CommitTickets(tickets, c)
  /\ events' = CommitEvents(events, c)
  /\ event_waitlist' = CommitWaitlist(event_waitlist, c)
  /\ users' = CommitUsers(users, c)
  /\ notifications' = CommitNotifications(notifications, c)

\* ROLLBACK on connection c
Rollback(c) ==
  /\ tickets' = RollbackTickets(tickets, c)
  /\ events' = RollbackEvents(events, c)
  /\ event_waitlist' = RollbackWaitlist(event_waitlist, c)
  /\ users' = RollbackUsers(users, c)
  /\ notifications' = RollbackNotifications(notifications, c)

----------------------------------------------------------------------------
(* Tables *)

\* a row of tickets inserted on connection c; its ticket_code is its index
NoTicket == [status |-> "none"]

NewTicket(e, u, rq, c) ==
  [event_id |-> e, user_id |-> u, req |-> rq,
   v |-> IF conns[c].inTxn THEN NoTicket
         ELSE [status |-> "active", updated_at |-> now],
   p |-> [status |-> "active", updated_at |-> now],
   lock |-> IF conns[c].inTxn THEN c ELSE 0]

\* a row of notifications inserted on connection c by request rq
NewNotification(u, kind, e, rq, c) ==
  [user_id |-> u, kind |-> kind, entity |-> e, req |-> rq,
   lock |-> IF conns[c].inTxn THEN c ELSE 0]

\* NotificationService.createNotification on connection c
createNotification(ns, u, kind, e, rq, c) ==
  ns \cup {NewNotification(u, kind, e, rq, c)}

\* SELECT COUNT(*) FROM tickets WHERE event_id = e AND status IN
\* ('active', 'completed'), on connection c
ticketCount(e, c) ==
  Cardinality({i \in DOMAIN tickets :
                 /\ tickets[i].event_id = e
                 /\ Vis(tickets[i], c).status \in {"active", "completed"}})

\* the committed status of ticket i: what any other connection reads
StatusOf(i) == tickets[i].v.status

\* the committed number of tickets of event e that hold a place
Attendance(e) ==
  Cardinality({i \in DOMAIN tickets :
                 /\ tickets[i].event_id = e
                 /\ StatusOf(i) \in {"active", "completed"}})

OnWaitlist(e, u) == event_waitlist[<<e, u>>].v

\* the payment gateway stub
processPayment(amount) == TRUE

----------------------------------------------------------------------------
(* Requests *)

Idle ==
  [op |-> "idle", pc |-> "idle", user |-> 0, event |-> 0, code |-> 0,
   quantity |-> 0, conn |-> 0, count |-> 0, capacity |-> 0, i |-> 0,
   left |-> NoValue, ids |-> {}, logged |-> FALSE, result |-> "none"]

Procs == DOMAIN req

\* request slot p is the next one to be used: slots are handed out in order
NextSlot(p) ==
  /\ req[p].op = "idle"
  /\ \A o \in Procs : o < p => req[o].op # "idle"

\* the response is sent and the handler returns: its locals are gone
Respond(r, res) ==
  [r EXCEPT !.pc = "done", !.result = res, !.conn = 0, !.count = 0,
            !.capacity = 0, !.i = 0, !.ids = {}]

EventRow(st, cap) ==
  [status |-> st, capacity |-> cap, start_time |-> EventStart,
   end_time |-> EventEnd, updated_at |-> TimeZero]

\* a row that no connection holds
Row(x) == [v |-> x, p |-> x, lock |-> 0]

\* nE published events with a status in S and a capacity up to MaxCapacity
InitEvents(nE, S) ==
  \E cap \in [1..nE -> 1..MaxCapacity], st \in [1..nE -> S] :
    events = [e \in 1..nE |->
                [v |-> EventRow(st[e], cap[e]), p |-> EventRow(st[e], cap[e]),
                 lock |-> 0, organiser_id |-> OrganiserOf(e),
                 price |-> PriceOf(e)]]

\* the admin account created by initialiseAdmin and the users 1..nU
InitUsers(nU) ==
  users = [u \in 0..nU |-> Row(IF u = AdminId THEN "admin" ELSE "user")]

\* a pool of nC connections, none of them inside a transaction
InitConns(nC) == conns = [c \in 1..nC |-> [inTxn |-> FALSE, out |-> FALSE]]

\* the users W are on the waitlist of every event, nobody else is
InitWaitlist(W) ==
  event_waitlist = [k \in EventIds \X UserIds |-> Row(k[2] \in W)]

\* a committed ticket of event e held by user u
SoldTicket(e, u, st) ==
  [event_id |-> e, user_id |-> u, req |-> 0,
   v |-> [status |-> st, updated_at |-> TimeZero],
   p |-> [status |-> st, updated_at |-> TimeZero], lock |-> 0]

\* the database after the schema is loaded, the admin account is created
\* and the organisers have published their events
Init ==
  /\ now = TimeZero
  /\ InitEvents(NumEvents, {"active"})
  /\ InitUsers(NumUsers)
  /\ InitConns(PoolSize)
  /\ InitWaitlist({})
  /\ tickets = <<>>
  /\ notifications = {}
  /\ req = [p \in 1..MaxRequests |-> Idle]

----------------------------------------------------------------------------
(* The clock *)

\* the clock moves on to one of the instants T
Tick(T) ==
  /\ \E t \in T : t > now /\ now' = t
  /\ UNCHANGED <<dbvars, conns, req>>

----------------------------------------------------------------------------
(* POST /:id : book quantity tickets of event e for user u.  Every         *)
(* statement goes through db.query, so each runs on some idle connection   *)
(* of the pool.                                                            *)

\* SELECT *, NOW() FROM events WHERE id = e, then the checks on the row
BookSelectEvent(p, e, u, q, c) ==
  /\ NextSlot(p)
  /\ c \in IdleConns
  /\ LET r == [req[p] EXCEPT !.op = "book", !.user = u, !.event = e,
                              !.quantity = q]
     IN req' = [req EXCEPT ![p] =
          IF e \notin EventIds THEN Respond(r, "event_not_found")
          ELSE IF Vis(events[e], c).end_time < now
            THEN Respond(r, "event_ended")
          ELSE [r EXCEPT !.pc = "count",
                         !.capacity = Vis(events[e], c).capacity]]
  /\ UNCHANGED <<now, dbvars, conns>>

\* BookCount with a refusal that reports the capacity as the places left
BookCountWrongLeft(p, c) ==
  /\ req[p].op = "book" /\ req[p].pc = "count"
  /\ c \in IdleConns
  /\ LET n == ticketCount(req[p].event, c)
         r == [req[p] EXCEPT !.count = n]
     IN req' = [req EXCEPT ![p] =
          IF n >= r.capacity THEN Respond(r, "fully_booked")
          ELSE IF n + r.quantity > r.capacity
            THEN [Respond(r, "not_enough_tickets") EXCEPT
                    !.left = r.capacity]
          ELSE IF events[r.event].price > 0
                  /\ ~processPayment(events[r.event].price * r.quantity)
            THEN Respond(r, "payment_failed")
          ELSE [r EXCEPT !.pc = "begin"]]
  /\ UNCHANGED <<now, dbvars, conns>>

\* SELECT COUNT(*) of the event's active and completed tickets, the two
\* capacity checks and the payment
BookCount(p, c) ==
  /\ req[p].op = "book" /\ req[p].pc = "count"
  /\ c \in IdleConns
  /\ LET n == ticketCount(req[p].event, c)
         r == [req[p] EXCEPT !.count = n]
     IN req' = [req EXCEPT ![p] =
          IF n >= r.capacity THEN Respond(r, "fully_booked")
          ELSE IF n + r.quantity > r.capacity
            THEN [Respond(r, "not_enough_tickets") EXCEPT
                    !.left = r.capacity - n]
          ELSE IF events[r.event].price > 0
                  /\ ~processPayment(events[r.event].price * r.quantity)
            THEN Respond(r, "payment_failed")
          ELSE [r EXCEPT !.pc = "begin"]]
  /\ UNCHANGED <<now, dbvars, conns>>

\* db.query("BEGIN")
BookBegin(p, c) ==
  /\ req[p].op = "book" /\ req[p].pc = "begin"
  /\ c \in IdleConns
  /\ conns' = Begin(conns, c)
  /\ req' = [req EXCEPT ![p].pc = "insert", ![p].i = 0]
  /\ UNCHANGED <<now, dbvars>>

\* one turn of the loop: INSERT INTO tickets ... 'active'; ok = FALSE is the
\* statement raising an error, which the catch block answers with ROLLBACK
BookInsert(p, c, ok) ==
  /\ req[p].op = "book" /\ req[p].pc = "insert"
  /\ c \in IdleConns
  /\ IF ok
     THEN /\ tickets' = Append(tickets,
                               NewTicket(req[p].event, req[p].user, p, c))
          /\ req' = [req EXCEPT
                       ![p].i = @ + 1,
                       ![p].pc = IF req[p].i + 1 = req[p].quantity
                                 THEN "waitlist" ELSE "insert"]
     ELSE /\ req' = [req EXCEPT ![p].pc = "rollback"]
          /\ UNCHANGED tickets
  /\ UNCHANGED <<now, events, event_waitlist, notifications, users, conns>>

\* DELETE FROM event_waitlist WHERE event_id = e AND user_id = u; it waits
\* while another connection holds the row
BookDeleteWaitlist(p, c, ok) ==
  /\ req[p].op = "book" /\ req[p].pc = "waitlist"
  /\ c \in IdleConns
  /\ LET k == <<req[p].event, req[p].user>>
         row == event_waitlist[k]
     IN IF ok
        THEN /\ Free(row, c)
             /\ event_waitlist' =
                  IF Vis(row, c)
                  THEN [event_waitlist EXCEPT ![k] = WriteRow(row, c, FALSE)]
                  ELSE event_waitlist
             /\ req' = [req EXCEPT ![p].pc = "notify"]
        ELSE /\ req' = [req EXCEPT ![p].pc = "rollback"]
             /\ UNCHANGED event_waitlist
  /\ UNCHANGED <<now, events, tickets, notifications, users, conns>>

\* createNotification(...).catch(console.error): a failure is logged and
\* the handler goes on
BookNotify(p, c, ok) ==
  /\ req[p].op = "book" /\ req[p].pc = "notify"
  /\ c \in IdleConns
  /\ IF ok
     THEN /\ notifications' =
               createNotification(notifications, req[p].user,
                                  "booking_confirmation", req[p].event, p, c)
          /\ req' = [req EXCEPT ![p].pc = "commit"]
     ELSE /\ req' = [req EXCEPT ![p].pc = "commit", ![p].logged = TRUE]
          /\ UNCHANGED notifications
  /\ UNCHANGED <<now, events, tickets, event_waitlist, users, conns>>

\* db.query("COMMIT") and the 201 response
BookCommit(p, c) ==
  /\ req[p].op = "book" /\ req[p].pc = "commit"
  /\ c \in IdleConns
  /\ Commit(c)
  /\ conns' = EndTxn(conns, c)
  /\ req' = [req EXCEPT ![p] = Respond(@, "booking_created")]
  /\ UNCHANGED now

\* the catch block: db.query("ROLLBACK") and the 500 response
BookRollback(p, c) ==
  /\ req[p].op = "book" /\ req[p].pc = "rollback"
  /\ c \in IdleConns
  /\ Rollback(c)
  /\ conns' = EndTxn(conns, c)
  /\ req' = [req EXCEPT ![p] = Respond(@, "booking_failed")]
  /\ UNCHANGED now

----------------------------------------------------------------------------
(* Handlers that run on a client of their own                              *)

\* ticket code names a row that connection c can read
Readable(code, c) ==
  code \in DOMAIN tickets /\ Vis(tickets[code], c).status # "none"

\* ROLLBACK on the handler's client, release, and the response
Abort(p, res) ==
  /\ Rollback(req[p].conn)
  /\ conns' = Release(conns, req[p].conn)
  /\ req' = [req EXCEPT ![p] = Respond(@, res)]

\* COMMIT on the handler's client, release, and the response
Finish(p, res) ==
  /\ Commit(req[p].conn)
  /\ conns' = Release(conns, req[p].conn)
  /\ req' = [req EXCEPT ![p] = Respond(@, res)]

\* SELECT ... FROM tickets t JOIN events e ... FOR UPDATE took the locks
LockTicketAndEvent(p, code) ==
  /\ tickets' = [tickets EXCEPT ![code] = LockRow(@, req[p].conn)]
  /\ events' = [events EXCEPT
                  ![tickets[code].event_id] = LockRow(@, req[p].conn)]

\* the same SELECT joined with the holder's row of users
LockTicketEventAndUser(p, code) ==
  /\ LockTicketAndEvent(p, code)
  /\ users' = [users EXCEPT
                 ![tickets[code].user_id] = LockRow(@, req[p].conn)]

\* the rows that SELECT would lock are not locked by another connection
RowsFree(code, c) ==
  /\ Free(tickets[code], c)
  /\ Free(events[tickets[code].event_id], c)

\* UPDATE tickets SET status = st WHERE ticket_code = code
SetTicketStatus(ts, code, c, st) ==
  [ts EXCEPT ![code] =
     WriteRow(@, c, [Vis(@, c) EXCEPT !.status = st, !.updated_at = now])]

\* waitlistUsers that finds nobody
waitlistNobody(e, c) == {}

\* SELECT user_id FROM event_waitlist WHERE event_id = e, on connection c
waitlistUsers(e, c) ==
  {u \in UserIds : Vis(event_waitlist[<<e, u>>], c)}

\* NotifyWaitlist that notifies nobody
NotifyNobody(ns, e, rq, c) == ns

\* a "Ticket Available!" notification for every user on the waitlist of e
NotifyWaitlist(ns, e, rq, c) ==
  ns \cup {NewNotification(u, "ticket_available", e, rq, c) :
             u \in waitlistUsers(e, c)}

----------------------------------------------------------------------------
(* DELETE /:ticketCode/cancel : user u cancels the ticket with this code   *)

\* db.connect() and BEGIN
CancelBegin(p, u, code, c) ==
  /\ NextSlot(p)
  /\ c \in IdleConns
  /\ conns' = Checkout(conns, c)
  /\ req' = [req EXCEPT ![p] = [@ EXCEPT !.op = "cancel", !.pc = "select",
                                         !.user = u, !.code = code,
                                         !.conn = c]]
  /\ UNCHANGED <<now, dbvars>>

\* CancelSelect with a lockout that includes the instant start - 5 minutes
CancelSelectInclusive(p) ==
  /\ req[p].op = "cancel" /\ req[p].pc = "select"
  /\ LET c == req[p].conn
         code == req[p].code
     IN IF ~(Readable(code, c) /\ tickets[code].user_id = req[p].user)
        THEN Abort(p, "access_denied")
        ELSE /\ RowsFree(code, c)
             /\ LET ticketData == Vis(tickets[code], c)
                    startTime ==
                      Vis(events[tickets[code].event_id], c).start_time
                IN IF ticketData.status = "cancelled"
                   THEN Abort(p, "already_cancelled")
                   ELSE IF ticketData.status = "complete"
                   THEN Abort(p, "already_completed")
                   ELSE IF startTime - now <= FIVE_MINUTES
                   THEN Abort(p, "too_late_to_cancel")
                   ELSE /\ LockTicketAndEvent(p, code)
                        /\ req' = [req EXCEPT ![p].pc = "update"]
                        /\ UNCHANGED <<event_waitlist, notifications, users,
                                       conns>>
  /\ UNCHANGED now

\* the SELECT ... FOR UPDATE of the ticket and its event, then the checks
\* on the ticket's status and on the time left before the start
CancelSelect(p) ==
  /\ req[p].op = "cancel" /\ req[p].pc = "select"
  /\ LET c == req[p].conn
         code == req[p].code
     IN IF ~(Readable(code, c) /\ tickets[code].user_id = req[p].user)
        THEN Abort(p, "access_denied")
        ELSE /\ RowsFree(code, c)
             /\ LET ticketData == Vis(tickets[code], c)
                    startTime ==
                      Vis(events[tickets[code].event_id], c).start_time
                IN IF ticketData.status = "cancelled"
                   THEN Abort(p, "already_cancelled")
                   ELSE IF ticketData.status = "complete"
                   THEN Abort(p, "already_completed")
                   ELSE IF startTime - now < FIVE_MINUTES
                   THEN Abort(p, "too_late_to_cancel")
                   ELSE /\ LockTicketAndEvent(p, code)
                        /\ req' = [req EXCEPT ![p].pc = "update"]
                        /\ UNCHANGED <<event_waitlist, notifications, users,
                                       conns>>
  /\ UNCHANGED now

\* UPDATE tickets SET status = 'cancelled' WHERE ticket_code = code
CancelUpdate(p, ok) ==
  /\ req[p].op = "cancel" /\ req[p].pc = "update"
  /\ IF ok
     THEN /\ Free(tickets[req[p].code], req[p].conn)
          /\ tickets' = SetTicketStatus(tickets, req[p].code, req[p].conn,
                                        "cancelled")
          /\ req' = [req EXCEPT ![p].pc = "notify"]
          /\ UNCHANGED <<events, event_waitlist, notifications, users, conns>>
     ELSE Abort(p, "internal_error")
  /\ UNCHANGED now

\* the notification to the holder, then one to every user on the waitlist
\* of the event; a failure of any of them reaches the catch block
CancelNotify(p, ok) ==
  /\ req[p].op = "cancel" /\ req[p].pc = "notify"
  /\ LET c == req[p].conn
         e == tickets[req[p].code].event_id
     IN IF ok
        THEN /\ notifications' =
                  NotifyWaitlist(
                    createNotification(notifications, req[p].user,
                                       "ticket_cancelled", e, p, c),
                    e, p, c)
             /\ req' = [req EXCEPT ![p].pc = "commit"]
             /\ UNCHANGED <<events, tickets, event_waitlist, users, conns>>
        ELSE Abort(p, "internal_error")
  /\ UNCHANGED now

\* COMMIT and the 200 response
CancelCommit(p) ==
  /\ req[p].op = "cancel" /\ req[p].pc = "commit"
  /\ Finish(p, "ticket_cancelled")
  /\ UNCHANGED now

\* the cancellations by the users U of the tickets with the codes K
Cancel(U, K) ==
  \E p \in Procs :
    \/ \E u \in U, code \in K, c \in Conns : CancelBegin(p, u, code, c)
    \/ CancelSelect(p)
    \/ \E ok \in BOOLEAN : CancelUpdate(p, ok)
    \/ \E ok \in BOOLEAN : CancelNotify(p, ok)
    \/ CancelCommit(p)

----------------------------------------------------------------------------
(* POST /:ticketCode/scan : user u scans the ticket code for event e       *)

\* the check of eventId, then db.connect() and BEGIN
ScanBegin(p, u, code, e, c) ==
  /\ NextSlot(p)
  /\ LET r == [req[p] EXCEPT !.op = "scan", !.user = u, !.code = code,
                              !.event = e]
     IN IF e = NoEvent
        THEN /\ req' = [req EXCEPT ![p] = Respond(r, "event_id_required")]
             /\ UNCHANGED conns
        ELSE /\ c \in IdleConns
             /\ conns' = Checkout(conns, c)
             /\ req' = [req EXCEPT ![p] = [r EXCEPT !.pc = "select",
                                                    !.conn = c]]
  /\ UNCHANGED <<now, dbvars>>

\* ScanSelect with a SELECT that takes no row lock (no FOR UPDATE)
ScanSelectNoLock(p) ==
  /\ req[p].op = "scan" /\ req[p].pc = "select"
  /\ LET c == req[p].conn
         code == req[p].code
     IN IF ~(Readable(code, c) /\ tickets[code].event_id = req[p].event)
        THEN Abort(p, "ticket_not_found")
        ELSE LET ticket == Vis(tickets[code], c)
                 event_status ==
                   Vis(events[tickets[code].event_id], c).status
             IN IF ticket.status = "completed"
                THEN Abort(p, "already_checked_in")
                ELSE IF ticket.status = "cancelled"
                THEN Abort(p, "ticket_cancelled")
                ELSE IF ticket.status # "active"
                THEN Abort(p, "invalid_ticket_status")
                ELSE IF event_status # "active"
                THEN Abort(p, "event_not_active")
                ELSE /\ req' = [req EXCEPT ![p].pc = "update"]
                     /\ UNCHANGED <<dbvars, conns>>
  /\ UNCHANGED now

\* the SELECT ... WHERE ticket_code = code AND event_id = e FOR UPDATE, the
\* switch on the ticket's status and the check of the event's status
ScanSelect(p) ==
  /\ req[p].op = "scan" /\ req[p].pc = "select"
  /\ LET c == req[p].conn
         code == req[p].code
     IN IF ~(Readable(code, c) /\ tickets[code].event_id = req[p].event)
        THEN Abort(p, "ticket_not_found")
        ELSE /\ RowsFree(code, c)
             /\ Free(users[tickets[code].user_id], c)
             /\ LET ticket == Vis(tickets[code], c)
                    event_status ==
                      Vis(events[tickets[code].event_id], c).status
                IN IF ticket.status = "completed"
                   THEN Abort(p, "already_checked_in")
                   ELSE IF ticket.status = "cancelled"
                   THEN Abort(p, "ticket_cancelled")
                   ELSE IF ticket.status # "active"
                   THEN Abort(p, "invalid_ticket_status")
                   ELSE IF event_status # "active"
                   THEN Abort(p, "event_not_active")
                   ELSE /\ LockTicketEventAndUser(p, code)
                        /\ req' = [req EXCEPT ![p].pc = "update"]
                        /\ UNCHANGED <<event_waitlist, notifications, conns>>
  /\ UNCHANGED now

\* UPDATE tickets SET status = 'completed' WHERE ticket_code = code
ScanUpdate(p, ok) ==
  /\ req[p].op = "scan" /\ req[p].pc = "update"
  /\ IF ok
     THEN /\ Free(tickets[req[p].code], req[p].conn)
          /\ tickets' = SetTicketStatus(tickets, req[p].code, req[p].conn,
                                        "completed")
          /\ req' = [req EXCEPT ![p].pc = "commit"]
          /\ UNCHANGED <<events, event_waitlist, notifications, users, conns>>
     ELSE Abort(p, "internal_server_error")
  /\ UNCHANGED now

\* COMMIT and the check_in_success response
ScanCommit(p) ==
  /\ req[p].op = "scan" /\ req[p].pc = "commit"
  /\ Finish(p, "check_in_success")
  /\ UNCHANGED now

\* the scans by the users U of the codes K for the events E
Scan(U, K, E) ==
  \E p \in Procs :
    \/ \E u \in U, code \in K, e \in E, c \in Conns :
         ScanBegin(p, u, code, e, c)
    \/ ScanSelect(p)
    \/ \E ok \in BOOLEAN : ScanUpdate(p, ok)
    \/ ScanCommit(p)

----------------------------------------------------------------------------
(* DELETE /:ticketCode/remove-attendee : user u, as organiser, removes the *)
(* holder of the ticket with this code                                     *)

\* the check of removalReason, then db.connect() and BEGIN
RemoveBegin(p, u, code, reason, c) ==
  /\ NextSlot(p)
  /\ LET r == [req[p] EXCEPT !.op = "remove", !.user = u, !.code = code]
     IN IF ~reason
        THEN /\ req' = [req EXCEPT ![p] = Respond(r, "reason_required")]
             /\ UNCHANGED conns
        ELSE /\ c \in IdleConns
             /\ conns' = Checkout(conns, c)
             /\ req' = [req EXCEPT ![p] = [r EXCEPT !.pc = "select",
                                                    !.conn = c]]
  /\ UNCHANGED <<now, dbvars>>

\* the SELECT ... WHERE ticket_code = code FOR UPDATE, then the checks of
\* the organiser, of the start time and of the ticket's status
RemoveSelect(p) ==
  /\ req[p].op = "remove" /\ req[p].pc = "select"
  /\ LET c == req[p].conn
         code == req[p].code
     IN IF ~Readable(code, c)
        THEN Abort(p, "ticket_not_found")
        ELSE /\ RowsFree(code, c)
             /\ Free(users[tickets[code].user_id], c)
             /\ LET ticket == Vis(tickets[code], c)
                    event == events[tickets[code].event_id]
                IN IF event.organiser_id # req[p].user
                   THEN Abort(p, "not_organiser")
                   ELSE IF Vis(event, c).start_time <= now
                   THEN Abort(p, "event_started")
                   ELSE IF ticket.status = "cancelled"
                   THEN Abort(p, "already_cancelled")
                   ELSE /\ LockTicketEventAndUser(p, code)
                        /\ req' = [req EXCEPT ![p].pc = "update"]
                        /\ UNCHANGED <<event_waitlist, notifications, conns>>
  /\ UNCHANGED now

\* UPDATE tickets SET status = 'cancelled' WHERE ticket_code = code
RemoveUpdate(p, ok) ==
  /\ req[p].op = "remove" /\ req[p].pc = "update"
  /\ IF ok
     THEN /\ Free(tickets[req[p].code], req[p].conn)
          /\ tickets' = SetTicketStatus(tickets, req[p].code, req[p].conn,
                                        "cancelled")
          /\ req' = [req EXCEPT ![p].pc = "notify"]
          /\ UNCHANGED <<events, event_waitlist, notifications, users, conns>>
     ELSE Abort(p, "internal_server_error")
  /\ UNCHANGED now

\* the notification to the removed attendee, then one to every user on
\* the waitlist of the event
RemoveNotify(p, ok) ==
  /\ req[p].op = "remove" /\ req[p].pc = "notify"
  /\ LET c == req[p].conn
         e == tickets[req[p].code].event_id
     IN IF ok
        THEN /\ notifications' =
                  NotifyWaitlist(
                    createNotification(notifications,
                                       tickets[req[p].code].user_id,
                                       "removed_from_event", e, p, c),
                    e, p, c)
             /\ req' = [req EXCEPT ![p].pc = "commit"]
             /\ UNCHANGED <<events, tickets, event_waitlist, users, conns>>
        ELSE Abort(p, "internal_server_error")
  /\ UNCHANGED now

\* COMMIT and the 200 response
RemoveCommit(p) ==
  /\ req[p].op = "remove" /\ req[p].pc = "commit"
  /\ Finish(p, "attendee_removed")
  /\ UNCHANGED now

\* the removals by the users U of the holders of the tickets K
Remove(U, K) ==
  \E p \in Procs :
    \/ \E u \in U, code \in K, reason \in BOOLEAN, c \in Conns :
         RemoveBegin(p, u, code, reason, c)
    \/ RemoveSelect(p)
    \/ \E ok \in BOOLEAN : RemoveUpdate(p, ok)
    \/ \E ok \in BOOLEAN : RemoveNotify(p, ok)
    \/ RemoveCommit(p)

----------------------------------------------------------------------------
(* Statements that change several rows                                     *)

\* the tickets that WHERE event_id = ANY(E) AND status = 'active' selects
\* on connection c
activeTicketsOf(E, c) ==
  {i \in DOMAIN tickets :
     tickets[i].event_id \in E /\ Vis(tickets[i], c).status = "active"}

\* the tickets that WHERE user_id = u AND status = 'active' selects
activeTicketsOfUser(u, c) ==
  {i \in DOMAIN tickets :
     tickets[i].user_id = u /\ Vis(tickets[i], c).status = "active"}

\* SELECT DISTINCT user_id FROM tickets WHERE event_id = e AND status = st
ticketHolders(e, st, c) ==
  {tickets[i].user_id : i \in {j \in DOMAIN tickets :
     tickets[j].event_id = e /\ Vis(tickets[j], c).status = st}}

\* UPDATE tickets SET status = st on the rows I
SetTickets(ts, I, c, st) ==
  [i \in DOMAIN ts |->
     IF i \in I THEN WriteRow(ts[i], c, [Vis(ts[i], c) EXCEPT !.status = st])
     ELSE ts[i]]

\* UPDATE events SET status = st on the rows E
SetEvents(es, E, c, st) ==
  [e \in DOMAIN es |->
     IF e \in E THEN WriteRow(es[e], c, [Vis(es[e], c) EXCEPT !.status = st])
     ELSE es[e]]

\* UPDATE events SET updated_at = CURRENT_TIMESTAMP on the rows E
TouchEvents(es, E, c) ==
  [e \in DOMAIN es |->
     IF e \in E
     THEN WriteRow(es[e], c, [Vis(es[e], c) EXCEPT !.updated_at = now])
     ELSE es[e]]

\* one notification of this kind about e for every user of U
NotifyAll(ns, U, kind, e, rq, c) ==
  ns \cup {NewNotification(u, kind, e, rq, c) : u \in U}

\* the least element of a set of ids: the first row of a result
First(S) == CHOOSE x \in S : \A y \in S : x <= y

----------------------------------------------------------------------------
(* DELETE /:id : user u cancels event e; every statement goes through      *)
(* db.query                                                                *)

\* the check of cancellationReason, SELECT ... FROM events WHERE id = e,
\* and the check that u is the organiser or an admin
CancelEventSelect(p, u, e, reason, c) ==
  /\ NextSlot(p)
  /\ c \in IdleConns
  /\ LET r == [req[p] EXCEPT !.op = "cancelEvent", !.user = u, !.event = e]
         isorganiser == events[e].organiser_id = u
         isAdmin == u = AdminId
     IN req' = [req EXCEPT ![p] =
          IF ~reason THEN Respond(r, "reason_required")
          ELSE IF e \notin EventIds THEN Respond(r, "event_not_found")
          ELSE IF ~isorganiser /\ ~isAdmin THEN Respond(r, "forbidden")
          ELSE [r EXCEPT !.pc = "attendees"]]
  /\ UNCHANGED <<now, dbvars, conns>>

\* SELECT DISTINCT t.user_id ... WHERE t.event_id = e AND t.status = 'active'
CancelEventAttendees(p, c) ==
  /\ req[p].op = "cancelEvent" /\ req[p].pc = "attendees"
  /\ c \in IdleConns
  /\ req' = [req EXCEPT ![p].ids = ticketHolders(req[p].event, "active", c),
                        ![p].pc = "begin"]
  /\ UNCHANGED <<now, dbvars, conns>>

\* db.query("BEGIN")
CancelEventBegin(p, c) ==
  /\ req[p].op = "cancelEvent" /\ req[p].pc = "begin"
  /\ c \in IdleConns
  /\ conns' = Begin(conns, c)
  /\ req' = [req EXCEPT ![p].pc = "tickets"]
  /\ UNCHANGED <<now, dbvars>>

\* UPDATE tickets SET status = 'cancelled' WHERE event_id = e AND active
CancelEventTickets(p, c, ok) ==
  /\ req[p].op = "cancelEvent" /\ req[p].pc = "tickets"
  /\ c \in IdleConns
  /\ IF ok
     THEN /\ \A i \in activeTicketsOf({req[p].event}, c) : Free(tickets[i], c)
          /\ tickets' = SetTickets(tickets,
                                   activeTicketsOf({req[p].event}, c), c,
                                   "cancelled")
          /\ req' = [req EXCEPT ![p].pc = "event"]
     ELSE /\ req' = [req EXCEPT ![p].pc = "rollback"]
          /\ UNCHANGED tickets
  /\ UNCHANGED <<now, events, event_waitlist, notifications, users, conns>>

\* UPDATE events SET status = 'cancelled', ... WHERE id = e
CancelEventUpdate(p, c, ok) ==
  /\ req[p].op = "cancelEvent" /\ req[p].pc = "event"
  /\ c \in IdleConns
  /\ IF ok
     THEN /\ Free(events[req[p].event], c)
          /\ events' = TouchEvents(
                          SetEvents(events, {req[p].event}, c, "cancelled"),
                          {req[p].event}, c)
          /\ req' = [req EXCEPT
                       ![p].pc = IF req[p].ids = {} THEN "commit"
                                 ELSE "notify"]
     ELSE /\ req' = [req EXCEPT ![p].pc = "rollback"]
          /\ UNCHANGED events
  /\ UNCHANGED <<now, tickets, event_waitlist, notifications, users, conns>>

\* one of the notifications of Promise.all: the next attendee's; a
\* failure is caught and logged
CancelEventNotify(p, c, ok) ==
  /\ req[p].op = "cancelEvent" /\ req[p].pc = "notify"
  /\ c \in IdleConns
  /\ LET attendee == First(req[p].ids)
     IN /\ notifications' =
             IF ok
             THEN createNotification(notifications, attendee,
                                     "event_cancelled", req[p].event, p, c)
             ELSE notifications
        /\ req' = [req EXCEPT
                     ![p].ids = @ \ {attendee},
                     ![p].pc = IF req[p].ids = {attendee} THEN "commit"
                               ELSE "notify"]
  /\ UNCHANGED <<now, events, tickets, event_waitlist, users, conns>>

\* db.query("COMMIT") and the response
CancelEventCommit(p, c) ==
  /\ req[p].op = "cancelEvent" /\ req[p].pc = "commit"
  /\ c \in IdleConns
  /\ Commit(c)
  /\ conns' = EndTxn(conns, c)
  /\ req' = [req EXCEPT ![p] = Respond(@, "event_cancelled")]
  /\ UNCHANGED now

\* the catch block: db.query("ROLLBACK"), and the error goes to next()
CancelEventRollback(p, c) ==
  /\ req[p].op = "cancelEvent" /\ req[p].pc = "rollback"
  /\ c \in IdleConns
  /\ Rollback(c)
  /\ conns' = EndTxn(conns, c)
  /\ req' = [req EXCEPT ![p] = Respond(@, "internal_error")]
  /\ UNCHANGED now

\* the cancellations of the events E by the users U
CancelEvent(U, E) ==
  \E p \in Procs, c \in Conns :
    \/ \E u \in U, e \in E, reason \in BOOLEAN :
         CancelEventSelect(p, u, e, reason, c)
    \/ CancelEventAttendees(p, c)
    \/ CancelEventBegin(p, c)
    \/ \E ok \in BOOLEAN : CancelEventTickets(p, c, ok)
    \/ \E ok \in BOOLEAN : CancelEventUpdate(p, c, ok)
    \/ \E ok \in BOOLEAN : CancelEventNotify(p, c, ok)
    \/ CancelEventCommit(p, c)
    \/ CancelEventRollback(p, c)

----------------------------------------------------------------------------
(* POST /users/:id/ban : an admin bans the user; one client of its own     *)

\* db.connect() and BEGIN
BanBegin(p, userId, c) ==
  /\ NextSlot(p)
  /\ c \in IdleConns
  /\ conns' = Checkout(conns, c)
  /\ req' = [req EXCEPT ![p] = [@ EXCEPT !.op = "ban", !.pc = "select",
                                         !.user = userId, !.conn = c]]
  /\ UNCHANGED <<now, dbvars>>

\* the active events the user organises, as connection c reads them
activeEventsOf(userId, c) ==
  {e \in EventIds : /\ events[e].organiser_id = userId
                    /\ Vis(events[e], c).status = "active"}

\* SELECT ... FROM users WHERE id = userId FOR UPDATE, the two checks, and
\* the SELECT of the active events the user organises
BanSelect(p) ==
  /\ req[p].op = "ban" /\ req[p].pc = "select"
  /\ LET c == req[p].conn
         userId == req[p].user
     IN IF userId \notin UserIds
        THEN Abort(p, "user_not_found")
        ELSE /\ Free(users[userId], c)
             /\ IF Vis(users[userId], c) = "admin"
                THEN Abort(p, "admins_cannot_be_banned")
                ELSE /\ users' = [users EXCEPT ![userId] = LockRow(@, c)]
                     /\ req' = [req EXCEPT
                                  ![p].ids = activeEventsOf(userId, c),
                                  ![p].pc = "update"]
                     /\ UNCHANGED <<events, tickets, event_waitlist,
                                    notifications, conns>>
  /\ UNCHANGED now

\* UPDATE users SET role = 'banned'; when the user organises active
\* events, UPDATE events SET status = 'cancelled' on them and a
\* notification to the holders of the active tickets of each
BanUpdate(p, ok) ==
  /\ req[p].op = "ban" /\ req[p].pc = "update"
  /\ LET c == req[p].conn
         userId == req[p].user
         holders == {<<e, u>> \in req[p].ids \X UserIds :
                       u \in ticketHolders(e, "active", c)}
     IN IF ok
        THEN /\ users' = [users EXCEPT ![userId] = WriteRow(@, c, "banned")]
             /\ IF req[p].ids # {}
                THEN /\ \A e \in activeEventsOf(userId, c) :
                          Free(events[e], c)
                     /\ events' = SetEvents(events, activeEventsOf(userId, c),
                                            c, "cancelled")
                     /\ notifications' = notifications \cup
                          {NewNotification(h[2], "event_cancelled", h[1], p, c)
                             : h \in holders}
                ELSE UNCHANGED <<events, notifications>>
             /\ req' = [req EXCEPT ![p].pc = "tickets"]
             /\ UNCHANGED <<tickets, event_waitlist, conns>>
        ELSE Abort(p, "internal_error")
  /\ UNCHANGED now

\* BanTickets that leaves the tickets of the user as they are
BanTicketsKept(p, ok) ==
  /\ req[p].op = "ban" /\ req[p].pc = "tickets"
  /\ IF ok
     THEN /\ req' = [req EXCEPT ![p].pc = "commit"]
          /\ UNCHANGED <<dbvars, conns>>
     ELSE Abort(p, "internal_error")
  /\ UNCHANGED now

\* UPDATE tickets SET status = 'cancelled' WHERE user_id = userId AND
\* active RETURNING event_id, then a notification to the waitlist of each
\* of these events, once per event
BanTickets(p, ok) ==
  /\ req[p].op = "ban" /\ req[p].pc = "tickets"
  /\ LET c == req[p].conn
         cancelledTickets == activeTicketsOfUser(req[p].user, c)
         notifiedEvents == {tickets[i].event_id : i \in cancelledTickets}
     IN IF ok
        THEN /\ \A i \in cancelledTickets : Free(tickets[i], c)
             /\ tickets' = SetTickets(tickets, cancelledTickets, c,
                                      "cancelled")
             /\ notifications' = notifications \cup
                  {NewNotification(w[2], "ticket_available", w[1], p, c) :
                     w \in {x \in notifiedEvents \X UserIds :
                              x[2] \in waitlistUsers(x[1], c)}}
             /\ req' = [req EXCEPT ![p].pc = "commit"]
             /\ UNCHANGED <<events, event_waitlist, users, conns>>
        ELSE Abort(p, "internal_error")
  /\ UNCHANGED now

\* COMMIT and the response
BanCommit(p) ==
  /\ req[p].op = "ban" /\ req[p].pc = "commit"
  /\ Finish(p, "user_banned")
  /\ UNCHANGED now

\* the bans of the users U
Ban(U) ==
  \E p \in Procs :
    \/ \E userId \in U, c \in Conns : BanBegin(p, userId, c)
    \/ BanSelect(p)
    \/ \E ok \in BOOLEAN : BanUpdate(p, ok)
    \/ \E ok \in BOOLEAN : BanTickets(p, ok)
    \/ BanCommit(p)

----------------------------------------------------------------------------
(* EventCompletionService.completePastEvents, run by the cron job; every   *)
(* statement goes through db.query                                         *)

\* db.query("BEGIN")
CompleteBegin(p, c) ==
  /\ NextSlot(p)
  /\ c \in IdleConns
  /\ conns' = Begin(conns, c)
  /\ req' = [req EXCEPT ![p] = [@ EXCEPT !.op = "complete",
                                         !.pc = "select"]]
  /\ UNCHANGED <<now, dbvars>>

\* SELECT id, title FROM events WHERE status = 'active' AND end_time < NOW()
CompleteSelect(p, c) ==
  /\ req[p].op = "complete" /\ req[p].pc = "select"
  /\ c \in IdleConns
  /\ LET pastEvents == {e \in EventIds :
                          /\ Vis(events[e], c).status = "active"
                          /\ Vis(events[e], c).end_time < now}
     IN req' = [req EXCEPT ![p].ids = pastEvents,
                           ![p].event = 0,
                           ![p].pc = IF pastEvents = {} THEN "commit"
                                     ELSE "events"]
  /\ UNCHANGED <<now, dbvars, conns>>

\* UPDATE events SET status = 'completed' WHERE id = ANY(eventIds)
CompleteEvents(p, c, ok) ==
  /\ req[p].op = "complete" /\ req[p].pc = "events"
  /\ c \in IdleConns
  /\ IF ok
     THEN /\ \A e \in req[p].ids : Free(events[e], c)
          /\ events' = TouchEvents(
                          SetEvents(events, req[p].ids, c, "completed"),
                          req[p].ids, c)
          /\ req' = [req EXCEPT ![p].pc = "tickets"]
     ELSE /\ req' = [req EXCEPT ![p].pc = "rollback"]
          /\ UNCHANGED events
  /\ UNCHANGED <<now, tickets, event_waitlist, notifications, users, conns>>

\* UPDATE tickets SET status = 'completed' WHERE event_id = ANY(eventIds)
\* AND status = 'active'
CompleteTickets(p, c, ok) ==
  /\ req[p].op = "complete" /\ req[p].pc = "tickets"
  /\ c \in IdleConns
  /\ IF ok
     THEN /\ \A i \in activeTicketsOf(req[p].ids, c) : Free(tickets[i], c)
          /\ tickets' = SetTickets(tickets, activeTicketsOf(req[p].ids, c),
                                   c, "completed")
          /\ req' = [req EXCEPT ![p].pc = "notify"]
     ELSE /\ req' = [req EXCEPT ![p].pc = "rollback"]
          /\ UNCHANGED tickets
  /\ UNCHANGED <<now, events, event_waitlist, notifications, users, conns>>

\* notifyEventAttendees for the next event: the holders of its completed
\* tickets are notified; an error is caught and logged
notifyEventAttendees(p, c, ok) ==
  /\ req[p].op = "complete" /\ req[p].pc = "notify"
  /\ c \in IdleConns
  /\ LET eventId == First(req[p].ids)
     IN /\ notifications' =
             IF ok
             THEN NotifyAll(notifications,
                            ticketHolders(eventId, "completed", c),
                            "thanks_for_attending", eventId, p, c)
             ELSE notifications
        /\ req' = [req EXCEPT
                     ![p].ids = @ \ {eventId},
                     ![p].logged = @ \/ ~ok,
                     ![p].pc = IF req[p].ids = {eventId} THEN "commit"
                               ELSE "notify"]
  /\ UNCHANGED <<now, events, tickets, event_waitlist, users, conns>>

\* db.query("COMMIT")
CompleteCommit(p, c) ==
  /\ req[p].op = "complete" /\ req[p].pc = "commit"
  /\ c \in IdleConns
  /\ Commit(c)
  /\ conns' = EndTxn(conns, c)
  /\ req' = [req EXCEPT ![p] = Respond(@, "events_completed")]
  /\ UNCHANGED now

\* the catch block: db.query("ROLLBACK"), and the error is thrown again
CompleteRollback(p, c) ==
  /\ req[p].op = "complete" /\ req[p].pc = "rollback"
  /\ c \in IdleConns
  /\ Rollback(c)
  /\ conns' = EndTxn(conns, c)
  /\ req' = [req EXCEPT ![p] = Respond(@, "sweep_failed")]
  /\ UNCHANGED now

\* cron.schedule("*/15 * * * *"): the schedule calls completePastEvents
\* again and again; the run in slot p has returned and is forgotten, so
\* that the next run can take its place
setupEventCompletionCron(p) ==
  /\ req[p].op = "complete" /\ req[p].pc = "done"
  /\ req' = [req EXCEPT ![p] = Idle]
  /\ UNCHANGED <<now, dbvars, conns>>

\* the runs of the completion sweep
completePastEvents ==
  \E p \in Procs, c \in Conns :
    \/ CompleteBegin(p, c)
    \/ CompleteSelect(p, c)
    \/ \E ok \in BOOLEAN : CompleteEvents(p, c, ok)
    \/ \E ok \in BOOLEAN : CompleteTickets(p, c, ok)
    \/ \E ok \in BOOLEAN : notifyEventAttendees(p, c, ok)
    \/ CompleteCommit(p, c)
    \/ CompleteRollback(p, c)

----------------------------------------------------------------------------
(* PUT /edit-event/:id : user u edits event e; the request carries the new *)
(* capacity and, for every other field, the value the event has.  Every    *)
(* statement goes through db.query, outside any transaction.               *)

\* SELECT COUNT(*) FROM tickets WHERE event_id = e AND status = 'active'
ticket_count(e, c) == Cardinality(activeTicketsOf({e}, c))

\* the validation of capacity, then SELECT * FROM events WHERE id = e AND
\* organiser_id = u
EditSelect(p, u, e, capacity, c) ==
  /\ NextSlot(p)
  /\ c \in IdleConns
  /\ LET r == [req[p] EXCEPT !.op = "edit", !.user = u, !.event = e,
                              !.quantity = capacity]
     IN req' = [req EXCEPT ![p] =
          IF capacity <= 0 THEN Respond(r, "validation_failed")
          ELSE IF e \notin EventIds \/ events[e].organiser_id # u
            THEN Respond(r, "event_not_found")
          ELSE [r EXCEPT !.pc = "original"]]
  /\ UNCHANGED <<now, dbvars, conns>>

\* EditOriginal with a refusal that reports ticket_count as the number of
\* tickets to remove
EditOriginalWrongNumber(p, c) ==
  /\ req[p].op = "edit" /\ req[p].pc = "original"
  /\ c \in IdleConns
  /\ LET original == Vis(events[req[p].event], c)
         newCapacity == req[p].quantity
         n == ticket_count(req[p].event, c)
         r == [req[p] EXCEPT !.capacity = original.capacity, !.count = n]
     IN req' = [req EXCEPT ![p] =
          IF newCapacity < original.capacity /\ n > newCapacity
            THEN [Respond(r, "capacity_below_tickets") EXCEPT
                    !.left = n]
          ELSE IF original.capacity = newCapacity
            THEN Respond(r, "no_changes")
          ELSE [r EXCEPT !.pc = "update"]]
  /\ UNCHANGED <<now, dbvars, conns>>

\* the SELECT of the original event with its ticket_count, the check of a
\* capacity lowered below ticket_count, and the comparison for changes
EditOriginal(p, c) ==
  /\ req[p].op = "edit" /\ req[p].pc = "original"
  /\ c \in IdleConns
  /\ LET original == Vis(events[req[p].event], c)
         newCapacity == req[p].quantity
         n == ticket_count(req[p].event, c)
         r == [req[p] EXCEPT !.capacity = original.capacity, !.count = n]
     IN req' = [req EXCEPT ![p] =
          IF newCapacity < original.capacity /\ n > newCapacity
            THEN [Respond(r, "capacity_below_tickets") EXCEPT
                    !.left = n - newCapacity]
          ELSE IF original.capacity = newCapacity
            THEN Respond(r, "no_changes")
          ELSE [r EXCEPT !.pc = "update"]]
  /\ UNCHANGED <<now, dbvars, conns>>

\* UPDATE events SET ..., capacity = $7, ... WHERE id = e AND organiser_id
EditUpdate(p, c, ok) ==
  /\ req[p].op = "edit" /\ req[p].pc = "update"
  /\ c \in IdleConns
  /\ IF ok
     THEN /\ Free(events[req[p].event], c)
          /\ events' = [events EXCEPT ![req[p].event] =
               WriteRow(@, c, [Vis(@, c) EXCEPT !.capacity = req[p].quantity,
                                              !.updated_at = now])]
          /\ req' = [req EXCEPT ![p].pc = "attendees"]
     ELSE /\ req' = [req EXCEPT ![p] = Respond(@, "internal_error")]
          /\ UNCHANGED events
  /\ UNCHANGED <<now, tickets, event_waitlist, notifications, users, conns>>

\* SELECT DISTINCT user_id FROM tickets WHERE event_id = e AND active; with
\* no attendee the handler reads the event again and answers
EditAttendees(p, c) ==
  /\ req[p].op = "edit" /\ req[p].pc = "attendees"
  /\ c \in IdleConns
  /\ LET attendees == ticketHolders(req[p].event, "active", c)
     IN req' = [req EXCEPT ![p] =
          IF attendees = {} THEN Respond(@, "event_updated")
          ELSE [@ EXCEPT !.ids = attendees, !.pc = "notify"]]
  /\ UNCHANGED <<now, dbvars, conns>>

\* one turn of the loop over the attendees: createNotification inside
\* try/catch; after the last one the handler reads the event and answers
EditNotify(p, c, ok) ==
  /\ req[p].op = "edit" /\ req[p].pc = "notify"
  /\ c \in IdleConns
  /\ LET attendee == First(req[p].ids)
     IN /\ notifications' =
             IF ok
             THEN createNotification(notifications, attendee,
                                     "event_updated", req[p].event, p, c)
             ELSE notifications
        /\ req' = [req EXCEPT ![p] =
             IF req[p].ids = {attendee} THEN Respond(@, "event_updated")
             ELSE [@ EXCEPT !.ids = @ \ {attendee}]]
  /\ UNCHANGED <<now, events, tickets, event_waitlist, users, conns>>

\* the edits of the events E by the users U to the capacities Q
Edit(U, E, Q) ==
  \E p \in Procs, c \in Conns :
    \/ \E u \in U, e \in E, capacity \in Q : EditSelect(p, u, e, capacity, c)
    \/ EditOriginal(p, c)
    \/ \E ok \in BOOLEAN : EditUpdate(p, c, ok)
    \/ EditAttendees(p, c)
    \/ \E ok \in BOOLEAN : EditNotify(p, c, ok)

----------------------------------------------------------------------------
(* POST /:id/waitlist and DELETE /:id/waitlist : user u joins or leaves    *)
(* the waitlist of event e.  Every statement is a db.query on the pool.    *)

\* SELECT id FROM events WHERE id = e
JoinSelectEvent(p, u, e, c) ==
  /\ NextSlot(p)
  /\ c \in IdleConns
  /\ LET r == [req[p] EXCEPT !.op = "join", !.user = u, !.event = e]
     IN req' = [req EXCEPT ![p] =
          IF e \notin EventIds THEN Respond(r, "event_not_found")
          ELSE [r EXCEPT !.pc = "existing"]]
  /\ UNCHANGED <<now, dbvars, conns>>

\* SELECT id FROM event_waitlist WHERE event_id = e AND user_id = u, and
\* the 400 when there is a row
JoinExisting(p, c) ==
  /\ req[p].op = "join" /\ req[p].pc = "existing"
  /\ c \in IdleConns
  /\ req' = [req EXCEPT ![p] =
       IF Vis(event_waitlist[<<req[p].event, req[p].user>>], c)
       THEN Respond(@, "already_on_waitlist")
       ELSE [@ EXCEPT !.pc = "insert"]]
  /\ UNCHANGED <<now, dbvars, conns>>

\* INSERT INTO event_waitlist (event_id, user_id): it waits for a pending
\* row with the same key, and UNIQUE(event_id, user_id) rejects a second
\* row; every error reaches the catch block and its 500
JoinInsert(p, c, ok) ==
  /\ req[p].op = "join" /\ req[p].pc = "insert"
  /\ c \in IdleConns
  /\ LET k == <<req[p].event, req[p].user>>
         row == event_waitlist[k]
     IN IF ok
        THEN /\ Free(row, c)
             /\ IF Vis(row, c)
                THEN /\ req' = [req EXCEPT ![p] =
                                  Respond(@, "failed_to_join")]
                     /\ UNCHANGED event_waitlist
                ELSE /\ event_waitlist' =
                          [event_waitlist EXCEPT ![k] = WriteRow(row, c, TRUE)]
                     /\ req' = [req EXCEPT ![p] =
                                  Respond(@, "added_to_waitlist")]
        ELSE /\ req' = [req EXCEPT ![p] = Respond(@, "failed_to_join")]
             /\ UNCHANGED event_waitlist
  /\ UNCHANGED <<now, events, tickets, notifications, users, conns>>

\* the requests of the users U to join the waitlists of the events E
JoinWaitlist(U, E) ==
  \E p \in Procs, c \in Conns :
    \/ \E u \in U, e \in E : JoinSelectEvent(p, u, e, c)
    \/ JoinExisting(p, c)
    \/ \E ok \in BOOLEAN : JoinInsert(p, c, ok)

\* LeaveDelete that answers 200 and deletes nothing
LeaveDeleteNothing(p, u, e, c, ok) ==
  /\ NextSlot(p)
  /\ c \in IdleConns
  /\ req' = [req EXCEPT ![p] =
       Respond([@ EXCEPT !.op = "leave", !.user = u, !.event = e],
               IF ok THEN "removed_from_waitlist" ELSE "failed_to_leave")]
  /\ UNCHANGED <<now, dbvars, conns>>

\* DELETE FROM event_waitlist WHERE event_id = e AND user_id = u, the 404
\* when rowCount is 0 and the 200 otherwise
LeaveDelete(p, u, e, c, ok) ==
  /\ NextSlot(p)
  /\ c \in IdleConns
  /\ LET r == [req[p] EXCEPT !.op = "leave", !.user = u, !.event = e]
         k == <<e, u>>
     IN IF ok
        THEN /\ e \in EventIds => Free(event_waitlist[k], c)
             /\ IF e \in EventIds /\ Vis(event_waitlist[k], c)
                THEN /\ event_waitlist' =
                          [event_waitlist EXCEPT
                             ![k] = WriteRow(event_waitlist[k], c, FALSE)]
                     /\ req' = [req EXCEPT ![p] =
                                  Respond(r, "removed_from_waitlist")]
                ELSE /\ req' = [req EXCEPT ![p] =
                                  Respond(r, "not_on_waitlist")]
                     /\ UNCHANGED event_waitlist
        ELSE /\ req' = [req EXCEPT ![p] = Respond(r, "failed_to_leave")]
             /\ UNCHANGED event_waitlist
  /\ UNCHANGED <<now, events, tickets, notifications, users, conns>>

\* the requests of the users U to leave the waitlists of the events E
LeaveWaitlist(U, E) ==
  \E p \in Procs, c \in Conns, u \in U, e \in E, ok \in BOOLEAN :
    LeaveDelete(p, u, e, c, ok)

----------------------------------------------------------------------------
(* EventReminderService.sendEventReminders, run by the hourly cron job and *)
(* by POST /send-reminders; every statement goes through db.query, outside *)
(* any transaction                                                         *)

\* n hours in milliseconds
Hours(n) == n * 60 * 60 * 1000

\* SELECT ... FROM events WHERE status = 'active' AND start_time BETWEEN
\* now AND now + 24 hours, on connection c
getUpcomingEvents(c) ==
  {e \in EventIds :
     /\ Vis(events[e], c).status = "active"
     /\ now <= Vis(events[e], c).start_time
     /\ Vis(events[e], c).start_time <= now + Hours(24)}

\* SELECT DISTINCT user_id FROM tickets WHERE event_id = e AND status =
\* 'active' AND user_id != organizerId
getEventAttendees(e, organizerId, c) ==
  ticketHolders(e, "active", c) \ {organizerId}

\* the reminder that is due hoursUntilEvent before the start:
\* Math.abs(hoursUntilEvent - 24) < 1, else Math.abs(hoursUntilEvent - 1) < 1
reminderTime(untilEvent) ==
  IF Hours(23) < untilEvent /\ untilEvent < Hours(25) THEN "24 hours"
  ELSE IF Hours(0) < untilEvent /\ untilEvent < Hours(2) THEN "1 hour"
  ELSE "none"

\* the call of getUpcomingEvents; an error is thrown again by the catch
\* block of sendEventReminders
RemindSelect(p, c, ok) ==
  /\ NextSlot(p)
  /\ c \in IdleConns
  /\ LET r == [req[p] EXCEPT !.op = "remind"]
         upcomingEvents == getUpcomingEvents(c)
     IN req' = [req EXCEPT ![p] =
          IF ~ok THEN Respond(r, "reminders_failed")
          ELSE IF upcomingEvents = {} THEN Respond(r, "reminders_sent")
          ELSE [r EXCEPT !.pc = "remind", !.ids = upcomingEvents]]
  /\ UNCHANGED <<now, dbvars, conns>>

\* one turn of the loop over the upcoming events: getEventAttendees, the
\* organiser added to the recipients, and sendReminders for the reminder
\* that is due; an error of any statement leaves the loop and is thrown
sendReminders(p, c, ok) ==
  /\ req[p].op = "remind" /\ req[p].pc = "remind"
  /\ c \in IdleConns
  /\ LET event == First(req[p].ids)
         recipients ==
           getEventAttendees(event, events[event].organiser_id, c)
             \cup {events[event].organiser_id}
         due == reminderTime(Vis(events[event], c).start_time - now)
     IN IF ok
        THEN /\ notifications' =
                  IF due = "none" THEN notifications
                  ELSE NotifyAll(notifications, recipients, due, event, p, c)
             /\ req' = [req EXCEPT ![p] =
                  IF req[p].ids = {event} THEN Respond(@, "reminders_sent")
                  ELSE [@ EXCEPT !.ids = @ \ {event}]]
        ELSE /\ req' = [req EXCEPT ![p] = Respond(@, "reminders_failed")]
             /\ UNCHANGED notifications
  /\ UNCHANGED <<now, events, tickets, event_waitlist, users, conns>>

\* the runs of the reminder sweep
sendEventReminders ==
  \E p \in Procs, c \in Conns, ok \in BOOLEAN :
    \/ RemindSelect(p, c, ok)
    \/ sendReminders(p, c, ok)

----------------------------------------------------------------------------
(* GET /edit-event/:id : user u fetches event e to edit it; both           *)
(* statements go through db.query                                          *)

\* UPDATE events SET updated_at = CURRENT_TIMESTAMP WHERE id = e AND
\* organiser_id = u
GetEditEventUpdate(p, u, e, c) ==
  /\ NextSlot(p)
  /\ c \in IdleConns
  /\ LET mine == {x \in {e} \cap EventIds :
                    /\ Vis(events[x], c).status # "none"
                    /\ events[x].organiser_id = u}
     IN /\ \A x \in mine : Free(events[x], c)
        /\ events' = TouchEvents(events, mine, c)
  /\ req' = [req EXCEPT ![p] = [@ EXCEPT !.op = "get_edit", !.pc = "select",
                                         !.user = u, !.event = e]]
  /\ UNCHANGED <<now, tickets, event_waitlist, notifications, users, conns>>

\* SELECT e.* FROM events e WHERE e.id = e AND e.organiser_id = u
GetEditEventSelect(p, c) ==
  /\ req[p].op = "get_edit" /\ req[p].pc = "select"
  /\ c \in IdleConns
  /\ req' = [req EXCEPT ![p] =
       IF /\ req[p].event \in EventIds
          /\ Vis(events[req[p].event], c).status # "none"
          /\ events[req[p].event].organiser_id = req[p].user
       THEN Respond(@, "event")
       ELSE Respond(@, "event_not_found")]
  /\ UNCHANGED <<now, dbvars, conns>>

\* the requests by the users U to fetch the events E for editing
GetEditEvent(U, E) ==
  \E p \in Procs, c \in Conns :
    \/ \E u \in U, e \in E : GetEditEventUpdate(p, u, e, c)
    \/ GetEditEventSelect(p, c)

----------------------------------------------------------------------------
(* EventCleanupService.cleanupCancelledEvents, run by the daily cron job   *)
(* and by POST /cleanup-events; every statement goes through db.query      *)

\* INTERVAL '7 days' in milliseconds
SevenDays == Hours(7 * 24)

\* db.query("BEGIN")
EventCleanupBegin(p, c) ==
  /\ NextSlot(p)
  /\ c \in IdleConns
  /\ conns' = Begin(conns, c)
  /\ req' = [req EXCEPT ![p] = [@ EXCEPT !.op = "cleanup_events",
                                         !.pc = "select"]]
  /\ UNCHANGED <<now, dbvars>>

\* SELECT id FROM events WHERE status = 'cancelled' AND updated_at <
\* NOW() - INTERVAL '7 days'
EventCleanupSelect(p, c) ==
  /\ req[p].op = "cleanup_events" /\ req[p].pc = "select"
  /\ c \in IdleConns
  /\ LET oldCancelledEvents ==
           {e \in EventIds :
              /\ Vis(events[e], c).status = "cancelled"
              /\ Vis(events[e], c).updated_at < now - SevenDays}
     IN req' = [req EXCEPT ![p].ids = oldCancelledEvents,
                           ![p].pc = IF oldCancelledEvents = {} THEN "commit"
                                     ELSE "tickets"]
  /\ UNCHANGED <<now, dbvars, conns>>

\* DELETE FROM event_reports, DELETE FROM event_categories (tables the
\* model does not hold) and DELETE FROM tickets WHERE event_id =
\* ANY(eventIds)
EventCleanupTickets(p, c, ok) ==
  /\ req[p].op = "cleanup_events" /\ req[p].pc = "tickets"
  /\ c \in IdleConns
  /\ IF ok
     THEN LET sold == {i \in DOMAIN tickets :
                         /\ tickets[i].event_id \in req[p].ids
                         /\ Vis(tickets[i], c).status # "none"}
          IN /\ \A i \in sold : Free(tickets[i], c)
             /\ tickets' = [i \in DOMAIN tickets |->
                              IF i \in sold
                              THEN WriteRow(tickets[i], c, NoTicket)
                              ELSE tickets[i]]
             /\ req' = [req EXCEPT ![p].pc = "events"]
     ELSE /\ req' = [req EXCEPT ![p].pc = "rollback"]
          /\ UNCHANGED tickets
  /\ UNCHANGED <<now, events, event_waitlist, notifications, users, conns>>

\* DELETE FROM events WHERE id = ANY(eventIds)
EventCleanupEvents(p, c, ok) ==
  /\ req[p].op = "cleanup_events" /\ req[p].pc = "events"
  /\ c \in IdleConns
  /\ IF ok
     THEN LET rows == {e \in req[p].ids : Vis(events[e], c).status # "none"}
          IN /\ \A e \in rows : Free(events[e], c)
             /\ events' = SetEvents(events, rows, c, "none")
             /\ req' = [req EXCEPT ![p].pc = "commit"]
     ELSE /\ req' = [req EXCEPT ![p].pc = "rollback"]
          /\ UNCHANGED events
  /\ UNCHANGED <<now, tickets, event_waitlist, notifications, users, conns>>

\* db.query("COMMIT")
EventCleanupCommit(p, c) ==
  /\ req[p].op = "cleanup_events" /\ req[p].pc = "commit"
  /\ c \in IdleConns
  /\ Commit(c)
  /\ conns' = EndTxn(conns, c)
  /\ req' = [req EXCEPT ![p] = Respond(@, "events_cleaned")]
  /\ UNCHANGED now

\* the catch block: db.query("ROLLBACK"), and the error is thrown again
EventCleanupRollback(p, c) ==
  /\ req[p].op = "cleanup_events" /\ req[p].pc = "rollback"
  /\ c \in IdleConns
  /\ Rollback(c)
  /\ conns' = EndTxn(conns, c)
  /\ req' = [req EXCEPT ![p] = Respond(@, "cleanup_failed")]
  /\ UNCHANGED now

\* the runs of the event cleanup
cleanupCancelledEvents ==
  \E p \in Procs, c \in Conns :
    \/ EventCleanupBegin(p, c)
    \/ EventCleanupSelect(p, c)
    \/ \E ok \in BOOLEAN : EventCleanupTickets(p, c, ok)
    \/ \E ok \in BOOLEAN : EventCleanupEvents(p, c, ok)
    \/ EventCleanupCommit(p, c)
    \/ EventCleanupRollback(p, c)

----------------------------------------------------------------------------
(* TicketCleanupService.cleanupCancelledTickets, run by the daily cron job *)
(* and by POST /cleanup-tickets; every statement goes through db.query     *)

\* db.query("BEGIN")
TicketCleanupBegin(p, c) ==
  /\ NextSlot(p)
  /\ c \in IdleConns
  /\ conns' = Begin(conns, c)
  /\ req' = [req EXCEPT ![p] = [@ EXCEPT !.op = "cleanup_tickets",
                                         !.pc = "select"]]
  /\ UNCHANGED <<now, dbvars>>

\* SELECT id FROM tickets WHERE status = 'cancelled' AND updated_at <
\* NOW() - INTERVAL '7 days'
TicketCleanupSelect(p, c) ==
  /\ req[p].op = "cleanup_tickets" /\ req[p].pc = "select"
  /\ c \in IdleConns
  /\ LET oldCancelledTickets ==
           {i \in DOMAIN tickets :
              /\ Vis(tickets[i], c).status = "cancelled"
              /\ Vis(tickets[i], c).updated_at < now - SevenDays}
     IN req' = [req EXCEPT ![p].ids = oldCancelledTickets,
                           ![p].pc = IF oldCancelledTickets = {} THEN "commit"
                                     ELSE "delete"]
  /\ UNCHANGED <<now, dbvars, conns>>

\* DELETE FROM tickets WHERE id = ANY(ticketIds)
TicketCleanupDelete(p, c, ok) ==
  /\ req[p].op = "cleanup_tickets" /\ req[p].pc = "delete"
  /\ c \in IdleConns
  /\ IF ok
     THEN LET rows == {i \in req[p].ids : Vis(tickets[i], c).status # "none"}
          IN /\ \A i \in rows : Free(tickets[i], c)
             /\ tickets' = [i \in DOMAIN tickets |->
                              IF i \in rows
                              THEN WriteRow(tickets[i], c, NoTicket)
                              ELSE tickets[i]]
             /\ req' = [req EXCEPT ![p].pc = "commit"]
     ELSE /\ req' = [req EXCEPT ![p].pc = "rollback"]
          /\ UNCHANGED tickets
  /\ UNCHANGED <<now, events, event_waitlist, notifications, users, conns>>

\* db.query("COMMIT")
TicketCleanupCommit(p, c) ==
  /\ req[p].op = "cleanup_tickets" /\ req[p].pc = "commit"
  /\ c \in IdleConns
  /\ Commit(c)
  /\ conns' = EndTxn(conns, c)
  /\ req' = [req EXCEPT ![p] = Respond(@, "tickets_cleaned")]
  /\ UNCHANGED now

\* the catch block: db.query("ROLLBACK"), and the error is thrown again
TicketCleanupRollback(p, c) ==
  /\ req[p].op = "cleanup_tickets" /\ req[p].pc = "rollback"
  /\ c \in IdleConns
  /\ Rollback(c)
  /\ conns' = EndTxn(conns, c)
  /\ req' = [req EXCEPT ![p] = Respond(@, "cleanup_failed")]
  /\ UNCHANGED now

\* the runs of the ticket cleanup
cleanupCancelledTickets ==
  \E p \in Procs, c \in Conns :
    \/ TicketCleanupBegin(p, c)
    \/ TicketCleanupSelect(p, c)
    \/ \E ok \in BOOLEAN : TicketCleanupDelete(p, c, ok)
    \/ TicketCleanupCommit(p, c)
    \/ TicketCleanupRollback(p, c)

\* the booking requests for the events E by the users U, of up to Q tickets
Book(E, U, Q) ==
  \E p \in Procs, c \in Conns :
    \/ \E e \in E, u \in U, q \in Q : BookSelectEvent(p, e, u, q, c)
    \/ BookCount(p, c)
    \/ BookBegin(p, c)
    \/ \E ok \in BOOLEAN : BookInsert(p, c, ok)
    \/ \E ok \in BOOLEAN : BookDeleteWaitlist(p, c, ok)
    \/ \E ok \in BOOLEAN : BookNotify(p, c, ok)
    \/ BookCommit(p, c)
    \/ BookRollback(p, c)

\* the codes a request can carry: those of the tickets, and one of none
Codes == DOMAIN tickets \cup {Len(tickets) + 1}

Next ==
  \/ Tick(Times)
  \/ Book(EventIds \cup {NoEvent}, UserIds, 1..MaxQuantity)
  \/ Cancel(UserIds, Codes)
  \/ Remove(UserIds, Codes)
  \/ Scan(UserIds, Codes, EventIds \cup {NoEvent})
  \/ CancelEvent(UserIds, EventIds \cup {NoEvent})
  \/ Ban(UserIds)
  \/ completePastEvents
  \/ Edit(UserIds, EventIds \cup {NoEvent}, 0..MaxCapacity)
  \/ JoinWaitlist(UserIds, EventIds \cup {NoEvent})
  \/ LeaveWaitlist(UserIds, EventIds \cup {NoEvent})
  \/ sendEventReminders
  \/ GetEditEvent(UserIds, EventIds \cup {NoEvent})
  \/ cleanupCancelledEvents
  \/ cleanupCancelledTickets

Spec == Init /\ [][Next]_vars

----------------------------------------------------------------------------
(* Concurrent bookings: one active event without tickets, user 1 on its    *)
(* waitlist; BookRequests requests of the users over a pool of BookPool    *)
(* connections.                                                            *)

BookUsers == 2

BookRequests == 2

BookPool == 2

InitBook ==
  /\ now = EventStart
  /\ InitEvents(1, {"active"})
  /\ InitUsers(BookUsers)
  /\ InitConns(BookPool)
  /\ InitWaitlist({1})
  /\ tickets = <<>>
  /\ notifications = {}
  /\ req = [p \in 1..BookRequests |-> Idle]

NextBook == Book(EventIds, UserIds \ {AdminId}, 1..MaxQuantity)

SpecBook == InitBook /\ [][NextBook]_vars

----------------------------------------------------------------------------
(* One booking while the clock runs: the event is active or was cancelled, *)
(* and the pool has PoolSize connections.                                  *)

PoolRequests == 1

InitPool ==
  /\ now = EventStart
  /\ InitEvents(1, {"active", "cancelled"})
  /\ InitUsers(BookUsers)
  /\ InitConns(PoolSize)
  /\ InitWaitlist({1})
  /\ tickets = <<>>
  /\ notifications = {}
  /\ req = [p \in 1..PoolRequests |-> Idle]

NextPool ==
  \/ Tick({EventEnd, EventEnd + 1})
  \/ Book(EventIds \cup {NoEvent}, UserIds \ {AdminId}, 1..MaxQuantity)

SpecPool == InitPool /\ [][NextPool]_vars

----------------------------------------------------------------------------
(* Bookings of an event with at most one place left, the others sold to    *)
(* user 2, and user 1 on its waitlist.                                     *)

RejectRequests == 1

RejectPool == 1

InitReject ==
  /\ now = EventStart
  /\ InitEvents(1, {"active"})
  /\ InitUsers(BookUsers)
  /\ InitConns(RejectPool)
  /\ InitWaitlist({1})
  /\ \E sold \in {events[1].v.capacity - 1, events[1].v.capacity} :
       tickets = [i \in 1..sold |-> SoldTicket(1, 2, "active")]
  /\ notifications = {}
  /\ req = [p \in 1..RejectRequests |-> Idle]

NextReject ==
  \/ Tick({EventEnd + 1})
  \/ Book(EventIds, UserIds \ {AdminId}, 1..MaxQuantity)

SpecReject == InitReject /\ [][NextReject]_vars

----------------------------------------------------------------------------
(* Concurrent scans: one active event with the ticket of user 2 sold;      *)
(* ScanRequests scans over a pool of ScanPool connections.                 *)

ScanRequests == 2

ScanPool == 2

InitScan ==
  /\ now = EventStart
  /\ InitEvents(1, {"active", "cancelled"})
  /\ InitUsers(BookUsers)
  /\ InitConns(ScanPool)
  /\ InitWaitlist({})
  /\ \E st \in {"active", "cancelled"} : tickets = <<SoldTicket(1, 2, st)>>
  /\ notifications = {}
  /\ req = [p \in 1..ScanRequests |-> Idle]

NextScan ==
  \/ Tick({EventEnd})
  \/ Scan({OrganiserOf(1)}, Codes, EventIds \cup {NoEvent})

SpecScan == InitScan /\ [][NextScan]_vars

----------------------------------------------------------------------------
(* Cancellations around the lockout: one active event organised by user 1, *)
(* the active ticket of user 2, user 1 on the waitlist; CancelRequests     *)
(* cancels and removals while the clock passes start - 5 minutes.          *)

CancelRequests == 2

CancelPool == 2

InitCancel ==
  /\ now = TimeZero
  /\ InitEvents(1, {"active"})
  /\ InitUsers(BookUsers)
  /\ InitConns(CancelPool)
  /\ InitWaitlist({1})
  /\ tickets = <<SoldTicket(1, 2, "active")>>
  /\ notifications = {}
  /\ req = [p \in 1..CancelRequests |-> Idle]

\* the users who hold a ticket
Holders == {tickets[i].user_id : i \in DOMAIN tickets}

NextCancel ==
  \/ Tick(Times)
  \/ Cancel(Holders, Codes)
  \/ Remove({OrganiserOf(1)}, Codes)

SpecCancel == InitCancel /\ [][NextCancel]_vars

----------------------------------------------------------------------------
(* Edits of the capacity: one active event organised by user 1, with up to *)
(* its capacity of active tickets of user 2 sold; EditRequests requests    *)
(* among edits by the organiser, scans and bookings by user 2.             *)

EditRequests == 2

EditPool == 1

InitEdit ==
  /\ now = EventStart
  /\ InitEvents(1, {"active"})
  /\ InitUsers(BookUsers)
  /\ InitConns(EditPool)
  /\ InitWaitlist({})
  /\ (\E sold \in 0..events[1].v.capacity :
        tickets = [i \in 1..sold |-> SoldTicket(1, 2, "active")])
  /\ notifications = {}
  /\ req = [p \in 1..EditRequests |-> Idle]

NextEdit ==
  \/ Edit({OrganiserOf(1)}, EventIds, 0..MaxCapacity)
  \/ Scan({OrganiserOf(1)}, DOMAIN tickets, EventIds)
  \/ Book(EventIds, {2}, {1})

SpecEdit == InitEdit /\ [][NextEdit]_vars

----------------------------------------------------------------------------
(* The capacity floor: the event and tickets of InitEdit, and FloorRequests *)
(* edits by the organiser and by user 2.                                   *)

FloorRequests == 2

FloorPool == 1

InitFloor ==
  /\ now = EventStart
  /\ InitEvents(1, {"active"})
  /\ InitUsers(BookUsers)
  /\ InitConns(FloorPool)
  /\ InitWaitlist({})
  /\ (\E sold \in 0..events[1].v.capacity :
        tickets = [i \in 1..sold |-> SoldTicket(1, 2, "active")])
  /\ notifications = {}
  /\ req = [p \in 1..FloorRequests |-> Idle]

NextFloor ==
  \/ Tick({EventEnd})
  \/ Edit(UserIds \ {AdminId}, EventIds, 0..MaxCapacity)

SpecFloor == InitFloor /\ [][NextFloor]_vars

----------------------------------------------------------------------------
(* The life of a ticket: one active event organised by user 1, the ticket  *)
(* of user 2 sold, user 1 on the waitlist; LifeRequests requests among     *)
(* cancel, removal, scan, event cancellation, ban and the sweep, while the *)
(* clock passes the start and the end of the event.                        *)

LifeRequests == 2

LifePool == 2

InitLife ==
  /\ now = TimeZero
  /\ InitEvents(1, {"active"})
  /\ InitUsers(BookUsers)
  /\ InitConns(LifePool)
  /\ InitWaitlist({1})
  /\ tickets = <<SoldTicket(1, 2, "active")>>
  /\ notifications = {}
  /\ req = [p \in 1..LifeRequests |-> Idle]

NextLife ==
  \/ Tick({EventStart, EventEnd + 1})
  \/ Cancel(UserIds \ {AdminId}, Codes)
  \/ Remove(UserIds \ {AdminId}, Codes)
  \/ Scan({OrganiserOf(1)}, Codes, EventIds \cup {NoEvent})
  \/ CancelEvent(UserIds, EventIds \cup {NoEvent})
  \/ Ban(UserIds)
  \/ completePastEvents

SpecLife == InitLife /\ [][NextLife]_vars

----------------------------------------------------------------------------
(* Claims about booking *)

\* request p has been answered with res
Answered(p, res) == req[p].pc = "done" /\ req[p].result = res

\* request p is answered by this step
Answers(p) == req[p].pc # "done" /\ req'[p].pc = "done"

\* the rows of tickets that request p inserted and that are committed
CommittedTicketsOf(p) ==
  {i \in DOMAIN tickets : tickets[i].req = p /\ StatusOf(i) # "none"}

\* C1: for every event, the number of its tickets with status active or
\* completed is at most its capacity, whatever the interleaving of the
\* booking requests
C1_CapacityInvariant ==
  \A e \in EventIds : Attendance(e) <= events[e].v.capacity

\* C2: when the event has one place left, two bookings of one ticket by
\* different users end with exactly one of them created and the other
\* refused for capacity, whichever of them was on the waitlist
C2_OneSlotOneWinner ==
  \A p1, p2 \in Procs :
    ( /\ p1 < p2
      /\ events[1].v.capacity = 1
      /\ req[p1].user # req[p2].user
      /\ \A p \in {p1, p2} :
           /\ req[p].op = "book" /\ req[p].pc = "done"
           /\ req[p].event = 1 /\ req[p].quantity = 1
           /\ req[p].result \in {"booking_created", "fully_booked"} )
    => Cardinality({p \in {p1, p2} : req[p].result = "booking_created"}) = 1

\* C7: a booking request inserts a ticket only for an event that exists,
\* whose status is active and whose end is still to come
C7_BooksOnlyActiveEvents ==
  [][\A i \in DOMAIN tickets' :
       i \notin DOMAIN tickets =>
         /\ tickets'[i].event_id \in EventIds
         /\ events[tickets'[i].event_id].v.status = "active"
         /\ now < events[tickets'[i].event_id].v.end_time]_vars

\* C8: a booking request that failed after it had inserted a ticket leaves
\* none of its tickets behind once it is answered
C8_FailedBookingLeavesNothing ==
  \A p \in Procs :
    (req[p].op = "book" /\ Answered(p, "booking_failed"))
      => CommittedTicketsOf(p) = {}

\* C9: the step that answers a booking with success, when the creation of
\* its notification did not fail, leaves exactly quantity tickets of the
\* request, all active, for its event and user, no waitlist entry of that
\* user for that event, and exactly one booking confirmation for the user.
C9_SuccessfulBookingEffect ==
  [][\A p \in Procs :
       ( /\ Answers(p) /\ req'[p].result = "booking_created"
         /\ ~req'[p].logged ) =>
         /\ Cardinality({i \in DOMAIN tickets' : tickets'[i].req = p})
              = req'[p].quantity
         /\ \A i \in DOMAIN tickets' :
              tickets'[i].req = p =>
                /\ tickets'[i].v.status = "active"
                /\ tickets'[i].event_id = req'[p].event
                /\ tickets'[i].user_id = req'[p].user
         /\ ~event_waitlist'[<<req'[p].event, req'[p].user>>].v
         /\ Cardinality({n \in notifications' :
                           /\ n.req = p /\ n.lock = 0
                           /\ n.kind = "booking_confirmation"
                           /\ n.user_id = req'[p].user}) = 1]_vars

\* the answers that refuse a booking for capacity or payment
Refusals == {"fully_booked", "not_enough_tickets", "payment_failed"}

\* request p has written no row
WroteNothing(p) ==
  /\ \A i \in DOMAIN tickets : tickets[i].req # p
  /\ \A n \in notifications : n.req # p

\* the places left as some connection counts them
PlacesLeft(e) ==
  {Vis(events[e], c).capacity - ticketCount(e, c) : c \in Conns}

\* C10 as stated: a booking refused for capacity or payment writes
\* nothing, and a refusal for capacity reports the number of places left
C10_RefusalReportsPlacesLeft ==
  [][\A p \in Procs :
       (Answers(p) /\ req'[p].result \in Refusals) =>
         /\ UNCHANGED dbvars
         /\ WroteNothing(p)
         /\ req'[p].result \in {"fully_booked", "not_enough_tickets"} =>
              /\ req'[p].left # NoValue
              /\ req'[p].left \in PlacesLeft(req[p].event)]_vars

\* C10 amended: a booking refused for capacity or payment writes nothing;
\* when some places are left but fewer than asked for, the refusal reports
\* their number; when none is left it says so without a number
C10_RefusalWritesNothing ==
  [][\A p \in Procs :
       (Answers(p) /\ req'[p].result \in Refusals) =>
         /\ UNCHANGED dbvars
         /\ WroteNothing(p)
         /\ req'[p].result = "not_enough_tickets" =>
              /\ req'[p].left \in PlacesLeft(req[p].event)
              /\ req'[p].left >= 1
              /\ req'[p].left < req'[p].quantity
         /\ req'[p].result = "fully_booked" =>
              /\ req'[p].left = NoValue
              /\ \E n \in PlacesLeft(req[p].event) : n <= 0]_vars

\* a waitlisted user was refused two tickets because one place was left
C10_Witness ==
  \E p \in Procs :
    /\ Answered(p, "not_enough_tickets")
    /\ req[p].left = 1 /\ req[p].quantity = 2
    /\ OnWaitlist(req[p].event, req[p].user)
    /\ Attendance(req[p].event) = 1

----------------------------------------------------------------------------
(* Claims about the life of a ticket                                       *)

\* request p is a finished request of this kind about the ticket code
Finished(p, op, code) ==
  req[p].op = op /\ req[p].pc = "done" /\ req[p].code = code

\* C3: two scans of the same code for the same event, of a ticket that was
\* active and of an active event, the only two requests about that code
\* and neither of which met a database error, answer one check_in_success
\* and one already_checked_in: never two successes, never none.
C3_OneCheckIn ==
  \A p1, p2 \in Procs :
    ( /\ p1 < p2
      /\ Finished(p1, "scan", 1) /\ Finished(p2, "scan", 1)
      /\ \A q \in Procs \ {p1, p2} : req[q].op = "idle" \/ req[q].code # 1
      /\ req[p1].event = 1 /\ req[p2].event = 1
      /\ events[1].v.status = "active"
      /\ StatusOf(1) # "cancelled"
      /\ req[p1].result # "internal_server_error"
      /\ req[p2].result # "internal_server_error" )
    => {req[p1].result, req[p2].result} =
         {"check_in_success", "already_checked_in"}

\* two scans of ticket 1 have answered, one with check_in_success and the
\* other with already_checked_in, and the ticket is completed
C3_Witness ==
  /\ Finished(1, "scan", 1) /\ Finished(2, "scan", 1)
  /\ req[1].event = 1 /\ req[2].event = 1
  /\ {req[1].result, req[2].result} =
       {"check_in_success", "already_checked_in"}
  /\ StatusOf(1) = "completed"
  /\ events[1].v.status = "active"

\* C4: a ticket whose status is cancelled or completed keeps that status
\* in every step of cancel, removal, scan, event cancellation, ban and
\* the completion sweep.
C4_FinalStatusesAreTerminal ==
  [][\A i \in DOMAIN tickets :
       StatusOf(i) \in {"cancelled", "completed"}
       => tickets'[i].v.status = StatusOf(i)]_vars

\* C5: a cancel or a removal that reports success was aimed at a ticket
\* that was neither cancelled nor completed; aimed at such a ticket it
\* answers an error and the status stays.
C5_NoSuccessOnFinalTicket ==
  [][\A p \in Procs :
       ( /\ Answers(p)
         /\ req[p].op \in {"cancel", "remove"}
         /\ req[p].code \in DOMAIN tickets
         /\ StatusOf(req[p].code) \in {"cancelled", "completed"} )
       => /\ req'[p].result \notin {"ticket_cancelled", "attendee_removed"}
          /\ tickets'[req[p].code].v.status = StatusOf(req[p].code)]_vars

\* request p is a cancel taking the step from the SELECT, of a ticket that
\* is active and that its holder reads as active
ChecksLockout(p) ==
  /\ req[p].op = "cancel" /\ req[p].pc = "select"
  /\ req'[p].pc # "select"
  /\ req[p].code \in DOMAIN tickets
  /\ tickets[req[p].code].user_id = req[p].user
  /\ StatusOf(req[p].code) = "active"
  /\ Vis(tickets[req[p].code], req[p].conn).status = "active"

\* the instant start - 5 minutes of the event of the ticket of request p
LockoutStart(p) ==
  events[tickets[req[p].code].event_id].v.start_time - FIVE_MINUTES

\* the cancel of request p is refused as too late and the ticket stays
RefusedAsTooLate(p) ==
  /\ req'[p].result = "too_late_to_cancel"
  /\ tickets'[req[p].code].v.status = "active"

----------------------------------------------------------------------------
(* Claims about the edit of an event                                       *)

\* request p is an edit taking the step that compares the new capacity
\* with the original event
ChecksCapacity(p) ==
  /\ req[p].op = "edit" /\ req[p].pc = "original"
  /\ req'[p].pc # "original"

\* the edit of request p is refused with n tickets to remove, and nothing
\* in the database changes
RefusedEdit(p, n) ==
  /\ req'[p].result = "capacity_below_tickets"
  /\ req'[p].left = n
  /\ UNCHANGED dbvars

\* C11: an edit that lowers the capacity of an event below the number of
\* its active tickets, as a pool connection reads them, is refused, leaves
\* the event unchanged and reports ticketsToRemove = active tickets - new
\* capacity; any other edit is not refused for capacity.
C11_CapacityFloor ==
  [][\A p \in Procs :
       ChecksCapacity(p) =>
         \E c \in IdleConns :
           LET n == ticket_count(req[p].event, c)
               newCapacity == req[p].quantity
           IN IF newCapacity < Vis(events[req[p].event], c).capacity
                 /\ newCapacity < n
              THEN RefusedEdit(p, n - newCapacity)
              ELSE req'[p].result # "capacity_below_tickets"]_vars

\* an edit to capacity 1 of the event with capacity 2 and 2 active tickets
\* was refused with 1 ticket to remove, and the capacity is still 2
C11_Witness ==
  \E p \in Procs :
    /\ req[p].op = "edit" /\ Answered(p, "capacity_below_tickets")
    /\ req[p].quantity = 1 /\ req[p].left = 1
    /\ events[req[p].event].v.capacity = 2
    /\ Cardinality({i \in DOMAIN tickets : StatusOf(i) = "active"}) = 2

\* C12: a step that lowers the capacity of an event leaves it at least
\* the number of the event's tickets that are active or completed.
C12_EditKeepsCapacityFloor ==
  [][\A e \in EventIds :
       events'[e].v.capacity < events[e].v.capacity
         => Attendance(e)' <= events'[e].v.capacity]_vars

----------------------------------------------------------------------------
(* Claims about the notifications of a cancellation                        *)

\* request p has changed the status of its ticket and is creating the
\* notifications of that change
Notifying(p) == req[p].op \in {"cancel", "remove"} /\ req[p].pc = "notify"

\* C13: a failure to create a notification never undoes the mutation that
\* triggered it: a voluntary cancellation or a removal that is answered at
\* its notification step (the creation failed) leaves the ticket committed
\* as cancelled
C13_NotificationFailureKeepsMutation ==
  [][\A p \in Procs : Notifying(p) /\ Answers(p)
       => tickets'[req[p].code].v.status = "cancelled"]_vars

\* Cancellations and removals of the one ticket of event 1 while users join
\* and leave its waitlist
FreedRequests == 2

FreedPool == 2

InitFreed ==
  /\ now = TimeZero
  /\ InitEvents(1, {"active"})
  /\ InitUsers(BookUsers)
  /\ InitConns(FreedPool)
  /\ \E W \in SUBSET {1, 2} : InitWaitlist(W)
  /\ tickets = <<SoldTicket(1, 2, "active")>>
  /\ notifications = {}
  /\ req = [p \in 1..FreedRequests |-> Idle]

NextFreed ==
  \/ Cancel(Holders, DOMAIN tickets)
  \/ Remove({OrganiserOf(1)}, DOMAIN tickets)
  \/ JoinWaitlist(UserIds \ {AdminId}, EventIds)
  \/ LeaveWaitlist(UserIds \ {AdminId}, EventIds)

SpecFreed == InitFreed /\ [][NextFreed]_vars

\* the "Ticket Available!" notifications for event e that request p made
\* for user u, among the notifications ns
SpotAvailable(ns, p, e, u) ==
  {n \in ns : n.req = p /\ n.user_id = u /\ n.entity = e
              /\ n.kind = "ticket_available"}

\* C14: a cancellation or a removal of a ticket of event e creates one
\* spot-available notification for every user it finds on the waitlist of
\* e, commits them with its success, and no step of it changes the waitlist
C14_WaitlistNotified ==
  [][\A p \in Procs :
       LET e == tickets[req[p].code].event_id
       IN /\ Notifying(p) /\ req'[p].pc = "commit"
               => \A u \in waitlistUsers(e, req[p].conn) :
                    Cardinality(SpotAvailable(notifications', p, e, u)) = 1
          /\ req[p].op \in {"cancel", "remove"} /\ req[p].pc = "commit"
               /\ Answers(p)
               => /\ req'[p].result \in {"ticket_cancelled", "attendee_removed"}
                  /\ \A u \in UserIds :
                       /\ Cardinality(SpotAvailable(notifications', p, e, u))
                            = Cardinality(SpotAvailable(notifications, p, e, u))
                       /\ \A n \in SpotAvailable(notifications', p, e, u) :
                            n.lock = 0
          /\ req'[p].op \in {"cancel", "remove"} /\ req'[p] # req[p]
               => event_waitlist' = event_waitlist]_vars

\* a cancellation has succeeded, the user on the waitlist has the
\* notification and is still on the waitlist
C14_Witness ==
  \E p \in Procs :
    /\ req[p].op \in {"cancel", "remove"}
    /\ req[p].pc = "done"
    /\ req[p].result \in {"ticket_cancelled", "attendee_removed"}
    /\ event_waitlist[<<1, 1>>].v
    /\ \E n \in SpotAvailable(notifications, p, 1, 1) : n.lock = 0

----------------------------------------------------------------------------
(* Claims about the waitlist                                               *)

\* Users join and leave the waitlist of one event, concurrently
WaitlistRequests == 3

WaitlistPool == 1

InitWaitlistOnly(nR, nC, Ws) ==
  /\ now = TimeZero
  /\ InitEvents(1, {"active"})
  /\ InitUsers(BookUsers)
  /\ InitConns(nC)
  /\ \E W \in Ws : InitWaitlist(W)
  /\ tickets = <<>>
  /\ notifications = {}
  /\ req = [p \in 1..nR |-> Idle]

InitJoinLeave == InitWaitlistOnly(WaitlistRequests, WaitlistPool, SUBSET {1, 2})

NextJoinLeave ==
  \/ JoinWaitlist(UserIds \ {AdminId}, EventIds \cup {NoEvent})
  \/ LeaveWaitlist(UserIds \ {AdminId}, EventIds)

SpecJoinLeave == InitJoinLeave /\ [][NextJoinLeave]_vars

\* this step answers a request of the kind op about a waitlist entry that
\* is committed (present = TRUE) or absent (present = FALSE) before it
AnswersWaitlist(p, op, present) ==
  /\ Answers(p)
  /\ req'[p].op = op
  /\ req'[p].event \in EventIds
  /\ event_waitlist[<<req'[p].event, req'[p].user>>].v = present
  /\ event_waitlist[<<req'[p].event, req'[p].user>>].lock = 0

\* C15: a join by a user who is already on the waitlist changes nothing and
\* is not answered with the error of a duplicate
C15_JoinAgainIsNoOp ==
  [][\A p \in Procs : AnswersWaitlist(p, "join", TRUE)
       => /\ event_waitlist' = event_waitlist
          /\ req'[p].result # "already_on_waitlist"]_vars

\* C16: a leave by a user who has no entry on the waitlist changes nothing
\* and is not answered with an error
C16_LeaveAgainIsNoOp ==
  [][\A p \in Procs : AnswersWaitlist(p, "leave", FALSE)
       => /\ event_waitlist' = event_waitlist
          /\ req'[p].result # "not_on_waitlist"]_vars

\* One caller at a time: a request starts when the one before is answered
ReentryRequests == 3

ReentryPool == 1

\* the users on the waitlist of the event before the first request
ReentryWaitlist == {2}

InitReentry == InitWaitlistOnly(ReentryRequests, ReentryPool, {ReentryWaitlist})

\* the request that takes this step is the only one not yet answered
OneAtATime ==
  \A p \in Procs : req'[p] # req[p]
    => \A q \in Procs \ {p} : req[q].pc \in {"idle", "done"}

NextReentry ==
  \/ JoinWaitlist(UserIds \ {AdminId}, EventIds) /\ OneAtATime
  \/ LeaveWaitlist(UserIds \ {AdminId}, EventIds) /\ OneAtATime

SpecReentry == InitReentry /\ [][NextReentry]_vars

\* request p was the request op of user u about event e and is answered
Was(p, op, e, u) ==
  /\ req[p].op = op /\ req[p].pc = "done"
  /\ req[p].event = e /\ req[p].user = u

\* the requests so far were join, leave, join of user u for event e, in
\* this order, and no statement of them failed in the database
JoinLeaveJoin(e, u) ==
  /\ ReentryRequests >= 3
  /\ Was(1, "join", e, u) /\ Was(2, "leave", e, u) /\ Was(3, "join", e, u)
  /\ \A p \in Procs \ {1, 2, 3} : req[p].op = "idle"
  /\ \A p \in {1, 2, 3} :
       req[p].result \notin {"failed_to_join", "failed_to_leave"}

\* C17: for a user who is not on the waitlist of an event, join, leave and
\* join again succeed one after the other, and the user then has an entry
C17_Reentry ==
  \A e \in EventIds, u \in UserIds \ ReentryWaitlist :
    JoinLeaveJoin(e, u)
      => /\ req[1].result = "added_to_waitlist"
         /\ req[2].result = "removed_from_waitlist"
         /\ req[3].result = "added_to_waitlist"
         /\ event_waitlist[<<e, u>>].v
         /\ event_waitlist[<<e, u>>].lock = 0

\* the three requests of user 1 are answered and the user is on the
\* waitlist
C17_Witness ==
  /\ JoinLeaveJoin(1, 1)
  /\ req[3].result = "added_to_waitlist"
  /\ event_waitlist[<<1, 1>>].v

----------------------------------------------------------------------------
(* Claims about the completion sweep, the ban and the status of an event   *)

\* Runs of the completion sweep one after the other, at one instant
SweepRequests == 2

SweepPool == 2

InitSweep ==
  /\ now \in {EventEnd, EventEnd + 1}
  /\ InitEvents(1, {"active", "cancelled"})
  /\ InitUsers(BookUsers)
  /\ InitConns(SweepPool)
  /\ InitWaitlist({})
  /\ \E s \in {"active", "cancelled"}, t \in {"active", "completed"} :
       tickets = <<SoldTicket(1, 1, s), SoldTicket(1, 2, t)>>
  /\ notifications = {}
  /\ req = [p \in 1..SweepRequests |-> Idle]

NextSweep == completePastEvents /\ OneAtATime

SpecSweep == InitSweep /\ [][NextSweep]_vars

\* this step is taken by a run of the sweep that started after another run
\* had returned without an error
SecondRun(p) ==
  /\ req'[p].op = "complete" /\ req'[p] # req[p]
  /\ \E q \in Procs \ {p} : req[q].op = "complete"
                            /\ Answered(q, "events_completed")

\* C18: a run of the completion sweep right after a run that returned, with
\* no event ended in between, changes no event, no ticket and creates no
\* notification
C18_SecondSweepChangesNothing ==
  [][\A p \in Procs : SecondRun(p)
       => UNCHANGED <<events, tickets, notifications>>]_vars


\* Bans of the users while tickets are cancelled
BanRequests == 2

BanPool == 2

InitBan ==
  /\ now = TimeZero
  /\ InitEvents(2, {"active"})
  /\ InitUsers(BookUsers)
  /\ InitConns(BanPool)
  /\ InitWaitlist({2})
  /\ \E s \in {"active", "completed"} :
       tickets = <<SoldTicket(2, 1, "active"), SoldTicket(1, 2, s)>>
  /\ notifications = {}
  /\ req = [p \in 1..BanRequests |-> Idle]

NextBan ==
  \/ Ban({AdminId, OrganiserOf(1)})
  \/ Cancel({OrganiserOf(1)}, DOMAIN tickets)

SpecBan == InitBan /\ [][NextBan]_vars

\* the committed values of the rows of a table
Committed(table) == [k \in DOMAIN table |-> table[k].v]

\* no event organised by user u and no ticket held by u is active
NothingActive(u) ==
  /\ \A e \in EventIds :
       events[e].organiser_id = u => events[e].v.status # "active"
  /\ \A i \in DOMAIN tickets :
       tickets[i].user_id = u => tickets[i].v.status # "active"

\* C19: when a ban is answered with success the user is banned and has no
\* active event and no active ticket; every other step of a ban, its
\* failure included, changes no committed role, event or ticket, and a ban
\* that has failed holds nothing
C19_BanIsAtomic ==
  [][\A p \in Procs : req'[p].op = "ban" /\ req'[p] # req[p]
       => IF req'[p].result = "user_banned"
          THEN users'[req[p].user].v = "banned" /\ NothingActive(req[p].user)'
          ELSE /\ Committed(users)' = Committed(users)
               /\ Committed(events)' = Committed(events)
               /\ Committed(tickets)' = Committed(tickets)
               /\ Answers(p) =>
                    /\ \A u \in UserIds : users'[u].lock # req[p].conn
                    /\ \A e \in EventIds : events'[e].lock # req[p].conn
                    /\ \A i \in DOMAIN tickets :
                         tickets'[i].lock # req[p].conn]_vars

\* user 1 is banned, and the event and the ticket that were active are
\* cancelled
C19_Witness ==
  \E p \in Procs :
    /\ req[p].op = "ban" /\ Answered(p, "user_banned") /\ req[p].user = 1
    /\ users[1].v = "banned"
    /\ events[1].v.status = "cancelled"
    /\ tickets[1].v.status = "cancelled"
    /\ \E n \in notifications : n.req = p /\ n.kind = "ticket_available"


\* Events are cancelled, organisers banned and the sweep run while time
\* passes
StatusRequests == 2

StatusPool == 1

InitStatus ==
  /\ now = EventStart
  /\ InitEvents(1, {"active", "completed", "cancelled"})
  /\ InitUsers(BookUsers)
  /\ InitConns(StatusPool)
  /\ InitWaitlist({})
  /\ \E s \in {"active", "cancelled"} : tickets = <<SoldTicket(1, 2, s)>>
  /\ notifications = {}
  /\ req = [p \in 1..StatusRequests |-> Idle]

NextStatus ==
  \/ Tick({EventEnd + 1})
  \/ CancelEvent({AdminId, OrganiserOf(1)}, EventIds)
  \/ Ban({OrganiserOf(1)})
  \/ completePastEvents

SpecStatus == InitStatus /\ [][NextStatus]_vars

\* C20: the committed status of an event changes only from active, to
\* completed or to cancelled: a completed or cancelled event keeps its
\* status
C20_EventStatusIsTerminal ==
  [][\A e \in EventIds :
       events'[e].v.status # events[e].v.status
         => /\ events[e].v.status = "active"
            /\ events'[e].v.status \in {"completed", "cancelled"}]_vars

----------------------------------------------------------------------------
(* Claims about the outcomes of a check-in scan                            *)

\* Scans of the one ticket, for its event and for another one
CheckInRequests == 2

CheckInPool == 2

InitCheckIn ==
  /\ now = EventStart
  /\ InitEvents(2, {"active", "completed", "cancelled"})
  /\ InitUsers(BookUsers)
  /\ InitConns(CheckInPool)
  /\ InitWaitlist({})
  /\ \E st \in {"active", "completed", "cancelled"} :
       tickets = <<SoldTicket(1, 2, st)>>
  /\ notifications = {}
  /\ req = [p \in 1..CheckInRequests |-> Idle]

NextCheckIn == Scan({OrganiserOf(1)}, Codes, EventIds \cup {NoEvent})

SpecCheckIn == InitCheckIn /\ [][NextCheckIn]_vars

\* the scan p reads its ticket in this step
ReadsTicket(p) ==
  req[p].op = "scan" /\ req[p].pc = "select" /\ req'[p].pc # "select"

\* the ticket of the scan p exists for the event of the scan, as p reads it
Matches(p) ==
  /\ req[p].code \in DOMAIN tickets
  /\ Vis(tickets[req[p].code], req[p].conn).status # "none"
  /\ tickets[req[p].code].event_id = req[p].event

\* C21: a scan goes on to check the ticket in exactly when the ticket is
\* active, is a ticket of the given event and the event is active; each
\* refusal names a condition that holds; only the success of a scan changes
\* the committed status of a ticket, of its own ticket, from active to
\* completed
C21_ScanOutcomes ==
  [][\A p \in Procs :
       /\ ReadsTicket(p) =>
            LET c == req[p].conn
                status == Vis(tickets[req[p].code], c).status
                event_status == Vis(events[req[p].event], c).status
            IN /\ req'[p].pc = "update"
                    <=> Matches(p) /\ status = "active"
                          /\ event_status = "active"
               /\ req'[p].pc # "update" =>
                    /\ req'[p].result \in
                         {"ticket_not_found", "already_checked_in",
                          "ticket_cancelled", "event_not_active"}
                    /\ req'[p].result = "ticket_not_found" <=> ~Matches(p)
                    /\ req'[p].result = "already_checked_in"
                         => status = "completed"
                    /\ req'[p].result = "ticket_cancelled"
                         => status = "cancelled"
                    /\ req'[p].result = "event_not_active"
                         => event_status # "active"
       /\ req'[p].op = "scan" /\ req'[p] # req[p] =>
            IF req'[p].result = "check_in_success"
            THEN /\ tickets[req[p].code].v.status = "active"
                 /\ tickets'[req[p].code].v.status = "completed"
                 /\ \A i \in DOMAIN tickets \ {req[p].code} :
                      tickets'[i].v = tickets[i].v
            ELSE \A i \in DOMAIN tickets : tickets'[i].v = tickets[i].v]_vars

\* one scan has checked the ticket in and one has been refused because the
\* ticket belongs to the other event
C21_Witness ==
  \E p \in Procs, q \in Procs :
    /\ req[p].op = "scan" /\ Answered(p, "check_in_success")
    /\ req[q].op = "scan" /\ Answered(q, "ticket_not_found")
    /\ req[q].code = 1 /\ req[q].event = 2
    /\ tickets[1].v.status = "completed"

----------------------------------------------------------------------------
(* Claims about what a run of the completion sweep leaves                  *)

\* event e has ended
Ended(e) == events[e].v.end_time < now

\* the committed thank-you notifications of user u for event e
Thanks(e, u) ==
  {n \in notifications : n.kind = "thanks_for_attending" /\ n.entity = e
                         /\ n.user_id = u /\ n.lock = 0}

\* user u holds a committed ticket of event e with the status st
Holds(u, e, st) ==
  \E i \in DOMAIN tickets : /\ tickets[i].event_id = e
                            /\ tickets[i].user_id = u
                            /\ tickets[i].v.status = st

\* a run of the sweep has returned, none is running and none has logged a
\* failed notification
SweepReturned ==
  /\ \E p \in Procs : req[p].op = "complete"
                      /\ Answered(p, "events_completed")
  /\ \A q \in Procs : req[q].pc \in {"idle", "done"} /\ ~req[q].logged

\* what the sweep has to leave: no ended event is active, no ticket of a
\* completed event is active, and each holder of a ticket of a completed
\* event has one notification for it
Swept ==
  \A e \in EventIds :
    /\ Ended(e) => events[e].v.status # "active"
    /\ events[e].v.status = "completed" =>
         \A u \in UserIds :
           /\ ~Holds(u, e, "active")
           /\ Cardinality(Thanks(e, u))
                = IF Holds(u, e, "completed") THEN 1 ELSE 0

\* C22: once a run of the completion sweep has returned, every event that
\* was active and had ended is completed with none of its tickets active
\* and each holder of its tickets notified once; no step changes an event
\* that has not ended, or one of its tickets
C22_SweepCompletes ==
  [][/\ SweepReturned' => Swept'
     /\ \A e \in EventIds : ~Ended(e) =>
          /\ events'[e].v = events[e].v
          /\ \A i \in DOMAIN tickets :
               tickets[i].event_id = e => tickets'[i].v = tickets[i].v]_vars


\* The schedule runs the completion sweep for ever, one run at a time,
\* after an event with active tickets has ended
RepairRequests == 1

RepairPool == 2

InitRepair ==
  /\ now = EventEnd + 1
  /\ InitEvents(1, {"active"})
  /\ InitUsers(BookUsers)
  /\ InitConns(RepairPool)
  /\ InitWaitlist({})
  /\ \E t \in {"active", "completed"} :
       tickets = <<SoldTicket(1, 1, "active"), SoldTicket(1, 2, t)>>
  /\ notifications = {}
  /\ req = [p \in 1..RepairRequests |-> Idle]

NextRepair ==
  \/ completePastEvents /\ OneAtATime
  \/ \E p \in Procs : setupEventCompletionCron(p)

\* the schedule never stops: a run that can take a step takes it, and a
\* run that has returned is followed by the next
SpecRepair == InitRepair /\ [][NextRepair]_vars /\ WF_vars(NextRepair)

\* a completed event has a ticket that is still active
HalfCompleted ==
  \E i \in DOMAIN tickets :
    /\ tickets[i].v.status = "active"
    /\ events[tickets[i].event_id].v.status = "completed"

\* C23: when a run of the sweep has left an event completed with a ticket
\* still active, the runs that follow repair it: eventually no ticket of a
\* completed event is active
C23_RerunRepairs == HalfCompleted ~> ~HalfCompleted

----------------------------------------------------------------------------
(* Claims about the reminders                                              *)

\* Runs of the reminder sweep before the start of two events, one with the
\* active tickets of users 1 and 2, while the clock passes the two windows
RemindRequests == 2

RemindPool == 1

\* a day before the start, and the full hours and half hours of the last
\* two hours
RemindTimes ==
  {EventStart - Hours(24), EventStart - Hours(2),
   EventStart - Hours(2) + 6 * FIVE_MINUTES,
   EventStart - Hours(1) + 6 * FIVE_MINUTES}

InitRemind ==
  /\ now = EventStart - Hours(25)
  /\ InitEvents(2, {"active", "cancelled"})
  /\ InitUsers(BookUsers)
  /\ InitConns(RemindPool)
  /\ InitWaitlist({})
  /\ tickets = <<SoldTicket(1, 1, "active"), SoldTicket(1, 2, "active")>>
  /\ notifications = {}
  /\ req = [p \in 1..RemindRequests |-> Idle]

NextRemind ==
  \/ Tick(RemindTimes)
  \/ sendEventReminders

SpecRemind == InitRemind /\ [][NextRemind]_vars

\* the reminders of this kind about event e that user u has received
Reminders(kind, e, u) ==
  {n \in notifications : n.kind = kind /\ n.entity = e /\ n.user_id = u}

\* C24: whatever runs of the reminder sweep there are, a user has at most
\* one 24-hour reminder and at most one 1-hour reminder of an event
C24_OneReminderPerWindow ==
  \A e \in EventIds, u \in UserIds, kind \in {"24 hours", "1 hour"} :
    Cardinality(Reminders(kind, e, u)) <= 1

----------------------------------------------------------------------------
(* Claims about the cleanup of cancelled events and tickets                *)

\* An event published more than seven days before, with a ticket sold on
\* the same day; the event is cancelled by its organiser or the admin, its
\* organiser or the ticket holder is banned, the organiser fetches it for
\* editing, and the two cleanups run, one request after the other, within
\* the next seven days or after them
CleanupRequests == 3

CleanupPool == 1

\* a row last written more than seven days before the first state
Aged(r) ==
  [r EXCEPT !.v.updated_at = TimeZero - SevenDays - 1,
            !.p.updated_at = TimeZero - SevenDays - 1]

InitCleanup ==
  /\ now = TimeZero
  /\ events = [e \in 1..1 |->
                 Aged([v |-> EventRow("active", 1), p |-> EventRow("active", 1),
                       lock |-> 0, organiser_id |-> OrganiserOf(e),
                       price |-> PriceOf(e)])]
  /\ InitUsers(BookUsers)
  /\ InitConns(CleanupPool)
  /\ InitWaitlist({})
  /\ tickets = <<Aged(SoldTicket(1, 2, "active"))>>
  /\ notifications = {}
  /\ req = [p \in 1..CleanupRequests |-> Idle]

NextCleanup ==
  \/ Tick({TimeZero + 1, TimeZero + SevenDays + 1})
  \/ CancelEvent({AdminId, OrganiserOf(1)}, EventIds) /\ OneAtATime
  \/ Ban({OrganiserOf(1), 2}) /\ OneAtATime
  \/ GetEditEvent({OrganiserOf(1)}, EventIds) /\ OneAtATime
  \/ cleanupCancelledEvents /\ OneAtATime
  \/ cleanupCancelledTickets /\ OneAtATime

SpecCleanup == InitCleanup /\ [][NextCleanup]_vars

\* the committed row of event e is deleted by this step
EventDeleted(e) ==
  events[e].v.status # "none" /\ events'[e].v.status = "none"

\* the committed row of ticket i is deleted by this step
TicketDeleted(i) ==
  tickets[i].v.status # "none" /\ tickets'[i].v.status = "none"

\* C25: an event is deleted only when it is cancelled and more than seven
\* days have passed since it became cancelled, and its tickets are deleted
\* with it.  Every event is active in the first state, at TimeZero, so a
\* deleted event became cancelled at TimeZero or later
C25_EventDeletedSevenDaysAfterCancel ==
  [][\A e \in EventIds :
       EventDeleted(e) =>
         /\ events[e].v.status = "cancelled"
         /\ now - TimeZero > SevenDays
         /\ \A i \in DOMAIN tickets :
              tickets[i].event_id = e => tickets'[i].v.status = "none"]_vars

\* C26: a ticket is deleted by the ticket cleanup only when it is cancelled
\* and more than seven days have passed since it became cancelled.  Every
\* ticket is active in the first state, at TimeZero
C26_TicketDeletedSevenDaysAfterCancel ==
  [][\A i \in DOMAIN tickets :
       (TicketDeleted(i) /\ \E p \in Procs :
                              /\ req[p].op = "cleanup_tickets"
                              /\ req'[p].result = "tickets_cleaned") =>
         /\ tickets[i].v.status = "cancelled"
         /\ now - TimeZero > SevenDays]_vars

----------------------------------------------------------------------------
(* Claims about the removal of an attendee                                 *)

\* Removals of the holder of one active ticket of event 1, asked for by the
\* admin, by the organiser and by the holder, with and without a reason,
\* before the start of the event or at it
RemoveRequests == 2

RemovePool == 2

InitRemove ==
  /\ now \in {TimeZero, EventStart}
  /\ InitEvents(1, {"active"})
  /\ InitUsers(BookUsers)
  /\ InitConns(RemovePool)
  /\ InitWaitlist({})
  /\ tickets = <<SoldTicket(1, 2, "active")>>
  /\ notifications = {}
  /\ req = [p \in 1..RemoveRequests |-> Idle]

NextRemove == Remove({AdminId, OrganiserOf(1), 2}, DOMAIN tickets)

SpecRemove == InitRemove /\ [][NextRemove]_vars

\* the removal p has read its ticket and makes its checks in this step
ChecksRemoval(p) ==
  /\ req[p].op = "remove" /\ req[p].pc = "select"
  /\ req'[p].pc # "select"
  /\ Readable(req[p].code, req[p].conn)

\* the removal p is refused with this answer
Refused(p, res) == req'[p].pc = "done" /\ req'[p].result = res

\* C27: a removal with a reason, of an active ticket, before the start of
\* the event passes the checks when the requester is the organiser of the
\* event or the admin, and is answered Forbidden for any other requester;
\* at or after the start it is rejected; a rejected removal leaves the
\* status of every ticket as it was
C27_RemovalPermission ==
  [][\A p \in Procs :
       ChecksRemoval(p) =>
         LET code == req[p].code
             e == tickets[code].event_id
             before == Vis(events[e], req[p].conn).start_time > now
             active == Vis(tickets[code], req[p].conn).status = "active"
             allowed == req[p].user \in {events[e].organiser_id, AdminId}
         IN /\ (active /\ before /\ allowed) => req'[p].pc = "update"
            /\ (active /\ before /\ ~allowed) => Refused(p, "not_organiser")
            /\ (active /\ allowed /\ ~before) => Refused(p, "event_started")
            /\ req'[p].pc = "done" =>
                 \A i \in DOMAIN tickets :
                   tickets'[i].v.status = tickets[i].v.status]_vars

----------------------------------------------------------------------------
(* Claims about the waitlist when a ticket holder is banned                *)

\* Bans of user 1, who holds two tickets of event 2 and one of event 1, and
\* of user 2, while user 3 is on the waitlist of both events
HolderRequests == 2

HolderPool == 2

InitHolder ==
  /\ now = TimeZero
  /\ InitEvents(2, {"active"})
  /\ InitUsers(NumUsers)
  /\ InitConns(HolderPool)
  /\ InitWaitlist({NumUsers})
  /\ \E s, t \in {"active", "cancelled"} :
       tickets = <<SoldTicket(2, 1, "active"), SoldTicket(2, 1, s),
                   SoldTicket(1, 1, t)>>
  /\ notifications = {}
  /\ req = [p \in 1..HolderRequests |-> Idle]

NextHolder == Ban({1, 2})

SpecHolder == InitHolder /\ [][NextHolder]_vars

\* the ban p cancels the tickets of the banned user in this step
CancelsTickets(p) ==
  req[p].op = "ban" /\ req[p].pc = "tickets" /\ req'[p].pc = "commit"

\* the tickets of event e that the ban p is about to cancel
Cancelling(p, e) ==
  {i \in activeTicketsOfUser(req[p].user, req[p].conn) :
     tickets[i].event_id = e}

\* the spot-available notifications about event e that the ban p has
\* written for user w
SpotsFor(ns, p, e, w) ==
  {n \in ns : /\ n.kind = "ticket_available" /\ n.entity = e
              /\ n.user_id = w /\ n.req = p}

\* user w is on the waitlist of event e, as the ban p reads it
Waitlisted(p, e, w) == Vis(event_waitlist[<<e, w>>], req[p].conn)

\* C28 as stated: when a ban cancels tickets, every user on the waitlist of
\* a cancelled ticket's event receives one spot-available notification for
\* every cancelled ticket of that event, and no waitlist entry is removed
C28_NoticePerCancelledTicket ==
  [][\A p \in Procs :
       CancelsTickets(p) =>
         /\ event_waitlist' = event_waitlist
         /\ \A e \in EventIds :
              \A w \in {u \in UserIds : Waitlisted(p, e, u)} :
                Cardinality(SpotsFor(notifications', p, e, w))
                  = Cardinality(Cancelling(p, e))]_vars

\* C28: when a ban cancels tickets, every user on the waitlist of an event
\* with a cancelled ticket receives exactly one spot-available
\* notification for that event, however many of its tickets were
\* cancelled; nobody is notified about the other events, and no waitlist
\* entry is removed
C28_NoticePerEvent ==
  [][\A p \in Procs :
       CancelsTickets(p) =>
         /\ event_waitlist' = event_waitlist
         /\ \A e \in EventIds, w \in UserIds :
              Cardinality(SpotsFor(notifications', p, e, w))
                = IF Cancelling(p, e) # {} /\ Waitlisted(p, e, w)
                  THEN 1 ELSE 0]_vars

\* a ban has cancelled both tickets of event 2 held by user 1 and has
\* written the notification of the waitlisted user
C28_Witness ==
  \E p \in Procs :
    /\ req[p].op = "ban" /\ req[p].pc = "done"
    /\ req[p].result = "user_banned" /\ req[p].user = 1
    /\ tickets[1].v.status = "cancelled" /\ tickets[2].v.status = "cancelled"
    /\ tickets[2].v.updated_at = TimeZero
    /\ SpotsFor(notifications, p, 2, NumUsers) # {}
    /\ event_waitlist[<<2, NumUsers>>].v

----------------------------------------------------------------------------
(* Claims about a sweep over several events                                *)

\* Runs of the reminder sweep and of the completion sweep, one after the
\* other, over two active events with a ticket each, a day before their
\* start and after their end
BatchRequests == 2

BatchPool == 1

InitBatch ==
  /\ now = EventStart - Hours(24)
  /\ InitEvents(2, {"active"})
  /\ InitUsers(NumUsers)
  /\ InitConns(BatchPool)
  /\ InitWaitlist({})
  /\ tickets = <<SoldTicket(1, NumUsers, "active"),
                 SoldTicket(2, NumUsers, "active")>>
  /\ notifications = {}
  /\ req = [p \in 1..BatchRequests |-> Idle]

NextBatch ==
  \/ Tick({EventEnd + 1})
  \/ sendEventReminders /\ OneAtATime
  \/ completePastEvents /\ OneAtATime

SpecBatch == InitBatch /\ [][NextBatch]_vars

\* the sweep p handles one event of its batch in this step, with further
\* events left
HandlesOne(p, op, pc) ==
  /\ req[p].op = op /\ req[p].pc = pc
  /\ req'[p] # req[p]
  /\ Cardinality(req[p].ids) > 1

\* C29: when a sweep has several events to handle, whatever happens to the
\* one it handles, an error included, it goes on to the remaining events:
\* so for the notifications of the completion sweep and for the reminders
C29_SweepGoesOn ==
  [][\A p \in Procs :
       /\ HandlesOne(p, "complete", "notify") =>
            /\ req'[p].pc = "notify"
            /\ req'[p].ids = req[p].ids \ {First(req[p].ids)}
       /\ HandlesOne(p, "remind", "remind") =>
            /\ req'[p].pc = "remind"
            /\ req'[p].ids = req[p].ids \ {First(req[p].ids)}]_vars

----------------------------------------------------------------------------
(* Claims about the tickets of an event that is no longer active           *)

\* One active event organised by user 1, with an active ticket of user 2:
\* user 2 books another ticket, the organiser cancels the event, the
\* organiser or the holder is banned, and the completion sweep runs once
\* the event has ended
MixRequests == 2

MixPool == 2

InitMix ==
  /\ now = TimeZero
  /\ InitEvents(1, {"active"})
  /\ InitUsers(BookUsers)
  /\ InitConns(MixPool)
  /\ InitWaitlist({})
  /\ tickets = <<SoldTicket(1, 2, "active")>>
  /\ notifications = {}
  /\ req = [p \in 1..MixRequests |-> Idle]

NextMix ==
  \/ Tick({EventEnd + 1})
  \/ Book(EventIds, {2}, {1})
  \/ CancelEvent({OrganiserOf(1)}, EventIds)
  \/ Ban({OrganiserOf(1), 2})
  \/ completePastEvents

SpecMix == InitMix /\ [][NextMix]_vars

\* C30: no committed active ticket belongs to an event whose committed
\* status is cancelled or completed
C30_NoActiveTicketOnClosedEvent ==
  \A i \in DOMAIN tickets :
    tickets[i].v.status = "active" =>
      events[tickets[i].event_id].v.status \notin {"cancelled", "completed"}

====
